---------------------------- MODULE Spec2Model ----------------------------
(***************************************************************************)
(* UnSocial: the staggered refresh scheduler (src/main.js), the custom     *)
(* website wizard and headless executor, and post normalisation            *)
(* (scraper-custom.js).                                                    *)
(*                                                                         *)
(* Time is counted in whole seconds since the Unix epoch: every constant   *)
(* the code writes in milliseconds is divided by 1000, and the clock and   *)
(* the delays drawn are whole seconds.  An optional value (a field that    *)
(* may be absent, null or undefined) is the empty sequence << >> or the    *)
(* one-element sequence << v >>.                                           *)
(***************************************************************************)
EXTENDS Integers, Sequences, FiniteSets, TLC

VARIABLES
  mode,             \* which component this behaviour exercises
  now,              \* Date.now(), in seconds
  feeds,            \* store.get('feeds'): the registry, in array order
  refreshTimeout,   \* main.js: let refreshTimeout (handle of the last timer armed)
  timers,           \* timers armed by setTimeout and neither fired nor cleared
  isRefreshing,     \* main.js: let isRefreshing
  schedScrapes,     \* activations of refreshOldestFeed suspended at their await
  manualOps,        \* activations of the 'refresh-feed' handler suspended at their await
  addOps,           \* activations of an add-feed handler suspended at their scrape
  events,           \* history: timer fires and manual requests so far
  notificationLog,  \* main.js: const notificationLog (newest first)
  clean,            \* history: no feed started without lastChecked and no scrape failed yet
  \* startCustomWizard
  step,             \* let step
  targetUrl,        \* let targetUrl
  settled,          \* let settled
  wizardWin,        \* the wizard's BrowserWindow
  promise,          \* the promise startCustomWizard returned
  settleCalls,      \* history: calls of resolve or reject so far
  others,           \* the sessions later calls of startCustomWizard opened
  ignored,          \* history: the last message the 'ipc-message' handler did not act on
  confirmedOn,      \* history: the URL of the document shown when 'confirm-items' was handled
  \* the page in the wizard's window and the selector script (injectSelector)
  page,             \* the document the window shows
  toolbar,          \* the controls #__unsocial_toolbar of that document carries
  listening,        \* the script's mousemove and click listeners are attached
  selectorMode,     \* var selectorMode
  selectedSelector, \* var selectedSelector
  selectedEls,      \* var selectedEls, as positions in the document
  target,           \* history: e.target of the click whose outcome stands, 0 when none does
  alert,            \* history: the text of the last alert the script raised
  sent,             \* messages the page has sent that the controller has not handled
  \* scrapeCustomSiteHeadless
  pc,               \* where the activation stands
  args,             \* its arguments
  hidden,           \* its hidden BrowserWindow and the page it holds
  numScrolls,       \* const numScrolls
  loopI,            \* the loop variable i
  wake,             \* when the pending sleep or load timeout is due
  scrolls,          \* history: when each scroll script ran
  waited,           \* history: seconds of sleep requested since the base settle delay
  outcome,          \* what the activation returned or threw
  \* extraction and normalisation, run after run over one element set
  elements,         \* the elements the saved selector matches
  runs,             \* history: the profileData of each run, and when it ran
  \* tunnel.js
  win32,            \* process.platform === 'win32'
  tunnelProcess,    \* let tunnelProcess: the handle of a process spawned, or null
  tunnelStatus,     \* let tunnelStatus
  spawnTimers,      \* callbacks armed by startTunnel's setTimeout and not yet run
  procs,            \* the tunnel processes spawned so far, in spawn order
  calls,            \* history: calls of startTunnel and stopTunnel so far
  stopped           \* history: stopTunnel returned and startTunnel was not called since

schedVars == <<feeds, refreshTimeout, timers, isRefreshing, schedScrapes,
               manualOps, addOps, events, notificationLog, clean>>

scriptVars == <<listening, selectorMode, selectedSelector, selectedEls, target, alert>>

selVars == <<page, toolbar, scriptVars, sent>>

wizVars == <<step, targetUrl, settled, wizardWin, promise, settleCalls, others, ignored,
             confirmedOn,
             selVars>>

hlVars == <<pc, args, hidden, numScrolls, loopI, wake, scrolls, waited, outcome>>

exVars == <<elements, runs>>

customVars == <<wizVars, hlVars, exVars>>

tunnelVars == <<win32, tunnelProcess, tunnelStatus, spawnTimers, procs, calls, stopped>>

vars == <<mode, now, schedVars, customVars, tunnelVars>>

-----------------------------------------------------------------------------
(* Bounds of the model *)

\* the clock at start-up: 2024-01-01T08:00:00Z
StartTime == 1704096000

\* timer fires and manual requests (refresh-feed, remove-feed) explored
MaxEvents == 3

\* timer fires explored when one feed fails on every attempt (mode "starve")
MaxStarveEvents == 6

\* timer fires and requests explored where feeds are also added and renamed
MaxOpsEvents == 2

\* time that passes between two events (a scrape that settles quickly or slowly)
Elapsed == {10, 150}

-----------------------------------------------------------------------------
(* Optional values *)

None == << >>

Some(v) == << v >>


Max(a, b) == IF a >= b THEN a ELSE b

-----------------------------------------------------------------------------
(* The components a behaviour does not exercise stay as they are here *)

Url(scheme, host, path) == [scheme |-> scheme, host |-> host, path |-> path]

EmptyUrl == Url("", << >>, "")

\* a promise nobody has resolved or rejected
Pending == [state |-> "pending", error |-> "", value |-> None]

NoArgs ==
  [pageUrl |-> EmptyUrl, selector |-> "", feedName |-> << >>, scrollSelector |-> None,
   scrollCount |-> [k |-> "null", n |-> 0, str |-> << >>]]

\* the page holds no selector script
NoScript ==
  /\ listening = FALSE
  /\ selectorMode = FALSE
  /\ selectedSelector = None
  /\ selectedEls = << >>
  /\ target = 0
  /\ alert = ""

\* no wizard is open
WizardIdle ==
  /\ others = << >>
  /\ ignored = None
  /\ confirmedOn = None
  /\ page = ""
  /\ toolbar = "none"
  /\ NoScript
  /\ sent = << >>
  /\ step = "login"
  /\ targetUrl = EmptyUrl
  /\ settled = FALSE
  /\ wizardWin = [destroyed |-> TRUE, closedPending |-> FALSE, selectionData |-> None]
  /\ promise = Pending
  /\ settleCalls = 0

\* no headless scrape of a custom site runs
HeadlessIdle ==
  /\ pc = "idle"
  /\ args = NoArgs
  /\ hidden = [destroyed |-> TRUE]
  /\ numScrolls = 0
  /\ loopI = 0
  /\ wake = 0
  /\ scrolls = << >>
  /\ waited = 0
  /\ outcome = Pending

ExtractIdle == elements = << >> /\ runs = << >>

CustomIdle == WizardIdle /\ HeadlessIdle /\ ExtractIdle

\* no tunnel was started
TunnelIdle ==
  /\ win32 = FALSE
  /\ tunnelProcess = None
  /\ tunnelStatus = "stopped"
  /\ spawnTimers = 0
  /\ procs = << >>
  /\ calls = 0
  /\ stopped = FALSE

\* the scheduler is not running and the registry is empty
SchedIdle ==
  /\ feeds = << >>
  /\ refreshTimeout = None
  /\ timers = {}
  /\ isRefreshing = FALSE
  /\ schedScrapes = {}
  /\ manualOps = {}
  /\ addOps = {}
  /\ events = 0
  /\ notificationLog = << >>
  /\ clean = TRUE

-----------------------------------------------------------------------------
(* The registry *)

\* f.platform || 'instagram'
PlatformOf(f) == IF f.platform = None THEN "instagram" ELSE f.platform[1]

\* f.lastChecked ? new Date(f.lastChecked).getTime() : 0
TimeOf(f) == IF f.lastChecked = None THEN 0 ELSE f.lastChecked[1]

\* Array.prototype.sort with (a, b) => ta - tb is stable: insert x after
\* every element that is not later than it
RECURSIVE InsertByTime(_, _)
InsertByTime(x, s) ==
  IF s = << >> THEN << x >>
  ELSE IF TimeOf(s[1]) <= TimeOf(x) THEN << s[1] >> \o InsertByTime(x, Tail(s))
  ELSE << x >> \o s

RECURSIVE SortByLastChecked(_)
SortByLastChecked(fs) ==
  IF fs = << >> THEN << >>
  ELSE InsertByTime(fs[Len(fs)], SortByLastChecked(SubSeq(fs, 1, Len(fs) - 1)))

\* currentFeeds.findIndex(f => f.username === u && (f.platform || 'instagram') === p); 0 for -1
FindIndex(fs, u, p) ==
  LET hits == {i \in 1..Len(fs) : fs[i].username = u /\ PlatformOf(fs[i]) = p}
  IN IF hits = {} THEN 0 ELSE CHOOSE i \in hits : \A j \in hits : i <= j


-----------------------------------------------------------------------------
(* Notifications (main.js) *)

\* notificationLog.length > 100 -> pop()
NotifCap == 100

\* addNotification(type, message): unshift, then drop the oldest beyond the cap.
\* The message of a feed notification is kept as the username it names.
addNotification(log, type, user) ==
  LET grown == << [type |-> type, user |-> user, resolved |-> FALSE] >> \o log
  IN IF Len(grown) > NotifCap THEN SubSeq(grown, 1, Len(grown) - 1) ELSE grown

\* A username is a sequence of characters.  The message of a feed notification
\* is `... @${username}: ...`, so n.message.includes(`@${u}`) holds exactly when
\* u is a prefix of the username the message names.
Includes(named, u) ==
  Len(u) <= Len(named) /\ SubSeq(named, 1, Len(u)) = u

\* resolveNotificationsBySubstring(`@${username}`)
resolveNotificationsBySubstring(log, user) ==
  [i \in 1..Len(log) |->
     IF ~log[i].resolved /\ Includes(log[i].user, user)
     THEN [log[i] EXCEPT !.resolved = TRUE] ELSE log[i]]

-----------------------------------------------------------------------------
(* Smart staggered feed refresher (main.js) *)

MAX_STALE_MS == (6 * 60 * 60 * 1000) \div 1000

\* 30 * 60 * 1000: the bump of a failing feed
PenaltyMs == (30 * 60 * 1000) \div 1000

\* 2 * 60 * 1000: the buffer before the 6-h mark
BufferMs == (2 * 60 * 1000) \div 1000

\* 5 * 1000: the shortest delay
FloorMs == (5 * 1000) \div 1000

\* getRandomInterval(): Math.round((25 + Math.random() * 40) * 60 * 1000);
\* the draws explored are the two ends of the range
getRandomInterval == {(25 * 60 * 1000) \div 1000, (65 * 60 * 1000) \div 1000}

\* the last entry of the sorted registry instead of the first
OldestFromEnd(fs) == SortByLastChecked(fs)[Len(fs)]

\* sorted[0] of a non-empty registry: the first entry, in array order, among
\* those with the least lastChecked
Oldest(fs) == SortByLastChecked(fs)[1]

\* NextDelay landing on the ceiling instead of 2 minutes before it
NextDelayOnCeiling(fs, t, drawn) ==
  IF Len(fs) > 0
  THEN LET oldestTime == TimeOf(Oldest(fs))
           timeUntilStale == MAX_STALE_MS - (t - oldestTime)
       IN IF timeUntilStale <= 0 THEN FloorMs
          ELSE IF timeUntilStale < drawn THEN Max(timeUntilStale, FloorMs)
          ELSE drawn
  ELSE drawn

\* NextDelay with the sort reversed: capped against the newest feed
NextDelayNewest(fs, t, drawn) ==
  IF Len(fs) > 0
  THEN LET sorted == SortByLastChecked(fs)
           newestTime == TimeOf(sorted[Len(sorted)])
           timeUntilStale == MAX_STALE_MS - (t - newestTime)
       IN IF timeUntilStale <= 0 THEN FloorMs
          ELSE IF timeUntilStale < drawn THEN Max(timeUntilStale - BufferMs, FloorMs)
          ELSE drawn
  ELSE drawn

\* the delay scheduleNextRefresh arms, given the interval drawn
NextDelay(fs, t, drawn) ==
  IF Len(fs) > 0
  THEN LET oldestTime == TimeOf(Oldest(fs))
           age == t - oldestTime
           timeUntilStale == MAX_STALE_MS - age
       IN IF timeUntilStale <= 0 THEN FloorMs
          ELSE IF timeUntilStale < drawn THEN Max(timeUntilStale - BufferMs, FloorMs)
          ELSE drawn
  ELSE drawn

\* some feed's lastChecked is more than 6 h old, or absent
AnyStale(fs, t) == \E i \in 1..Len(fs) : t - TimeOf(fs[i]) > MAX_STALE_MS

\* scheduleNextRefresh without clearTimeout: the timer armed before stays
scheduleNextRefreshKeepsOld(tm, fs, t, drawn) ==
  LET delay == NextDelay(fs, t, drawn)
      handle == [due |-> t + delay, delay |-> delay, armedAt |-> t,
                 stale |-> AnyStale(fs, t)]
  IN [timers |-> tm.timers \cup {handle}, refreshTimeout |-> Some(handle)]

\* scheduleNextRefresh(): clearTimeout(refreshTimeout), then setTimeout.
\* tm is the pair [timers, refreshTimeout]; the handle records when the timer
\* is due, the delay armed and whether a feed was stale at that moment.
scheduleNextRefresh(tm, fs, t, drawn) ==
  LET cleared == IF tm.refreshTimeout = None THEN tm.timers
                 ELSE tm.timers \ {tm.refreshTimeout[1]}
      delay == NextDelay(fs, t, drawn)
      handle == [due |-> t + delay, delay |-> delay, armedAt |-> t,
                 stale |-> AnyStale(fs, t)]
  IN [timers |-> cleared \cup {handle}, refreshTimeout |-> Some(handle)]

TimerState == [timers |-> timers, refreshTimeout |-> refreshTimeout]

\* profileData.posts.filter(p => !p.timestampEstimated && p.timestamp)
RealPosts(posts) ==
  {i \in 1..Len(posts) : ~posts[i].timestampEstimated /\ posts[i].timestamp # None}

\* new Date(Math.max(...realPosts.map(p => new Date(p.timestamp).getTime())))
MaxTimestamp(posts, idxs) ==
  CHOOSE m \in {posts[i].timestamp[1] : i \in idxs} :
    \A i \in idxs : posts[i].timestamp[1] <= m

\* a success write that stores the dispatched feed again when the registry no
\* longer has it
SuccessWriteRecreates(fs, u, p, posts, t) ==
  LET idx == FindIndex(fs, u, p)
      real == RealPosts(posts)
  IN IF idx = 0
     THEN Append(fs, [username |-> u, platform |-> Some(p), alias |-> u,
                      lastChecked |-> Some(t), postCount |-> Len(posts),
                      latestPostDate |-> None])
     ELSE [fs EXCEPT ![idx] =
             [@ EXCEPT !.lastChecked = Some(t),
                       !.postCount = Len(posts),
                       !.latestPostDate =
                          IF real # {} THEN Some(MaxTimestamp(posts, real))
                          ELSE @]]

\* a success write that penalises a refresh without posts
SuccessWritePenalisesEmpty(fs, u, p, posts, t) ==
  LET idx == FindIndex(fs, u, p)
      real == RealPosts(posts)
  IN IF idx = 0 THEN fs
     ELSE [fs EXCEPT ![idx] =
             [@ EXCEPT !.lastChecked = IF Len(posts) = 0 THEN Some(TimeOf(fs[idx]) + PenaltyMs)
                                       ELSE Some(t),
                       !.postCount = Len(posts),
                       !.latestPostDate =
                          IF real # {} THEN Some(MaxTimestamp(posts, real))
                          ELSE @]]

\* the success write of refreshOldestFeed: currentFeeds[idx] is re-resolved by
\* (username, platform) and only that entry is changed
SuccessWrite(fs, u, p, posts, t) ==
  LET idx == FindIndex(fs, u, p)
      real == RealPosts(posts)
  IN IF idx = 0 THEN fs
     ELSE [fs EXCEPT ![idx] =
             [@ EXCEPT !.lastChecked = Some(t),
                       !.postCount = Len(posts),
                       !.latestPostDate =
                          IF real # {} THEN Some(MaxTimestamp(posts, real))
                          ELSE @]]

\* the feed the catch block names: the oldest entry of the registry as it is
\* when the scrape fails (None when the registry is empty)
CatchFeed(fs) == IF Len(fs) = 0 THEN None ELSE Some(Oldest(fs))

\* FailureWrite without the bump: the failing feed keeps its lastChecked
FailureWriteNoBump(fs) == fs

\* the failure write: lastChecked of that feed becomes its stored value + 30 min
FailureWrite(fs) ==
  LET feed == CatchFeed(fs)
  IN IF feed = None THEN fs
     ELSE LET idx == FindIndex(fs, feed[1].username, PlatformOf(feed[1]))
          IN IF idx = 0 THEN fs
             ELSE [fs EXCEPT ![idx].lastChecked = Some(TimeOf(fs[idx]) + PenaltyMs)]

\* `Failed to refresh @${feed?.username || 'unknown'}: ...`
FailureUser(fs) ==
  IF CatchFeed(fs) = None THEN << "u", "n", "k", "n", "o", "w", "n" >>
  ELSE CatchFeed(fs)[1].username


-----------------------------------------------------------------------------
(* Inputs of the scheduler *)

UserA == << "a" >>

UserB == << "a", "b" >>

FeedEntry(u, p, lc) ==
  [username |-> u, platform |-> p, alias |-> u, lastChecked |-> lc, postCount |-> 1,
   latestPostDate |-> None]

\* lastChecked of a feed at start-up: checked 5 h 50 min ago
Aged == Some(StartTime - 21000)

\* lastChecked of a feed at start-up: checked 10 min ago
Fresh == Some(StartTime - 600)

\* the registry at start-up: empty, one feed never checked, or two feeds
InitRegistries ==
  {<< >>,
   << FeedEntry(UserA, None, None) >>,
   << FeedEntry(UserA, None, Aged), FeedEntry(UserB, Some("twitter"), Aged) >>,
   << FeedEntry(UserA, None, Fresh), FeedEntry(UserB, Some("twitter"), Aged) >>,
   << FeedEntry(UserA, None, None), FeedEntry(UserB, Some("twitter"), Fresh) >>}

Post(ts, est) == [timestamp |-> ts, timestampEstimated |-> est]

\* profileData.posts of a scrape that succeeds: no post, or two dated posts
\* around one whose timestamp is estimated
Results ==
  {<< >>,
   << Post(Some(StartTime - 90000), FALSE), Post(Some(StartTime - 10), TRUE),
      Post(Some(StartTime - 80000), FALSE) >>}

\* time may pass by d when no pending timer is due before then
CanPass(d) == \A t \in timers : t.due >= now + d

\* one more timer fire or manual request is explored
Budget ==
  /\ events < (IF mode = "starve" THEN MaxStarveEvents
               ELSE IF mode \in {"ops", "server"} THEN MaxOpsEvents
               ELSE MaxEvents)
  /\ events' = events + 1

\* timers and refreshTimeout become those of tm
SetTimers(tm) ==
  /\ timers' = tm.timers
  /\ refreshTimeout' = tm.refreshTimeout

-----------------------------------------------------------------------------
(* Scheduler actions *)

SchedInit ==
  /\ mode = "sched"
  /\ now = StartTime
  /\ feeds \in InitRegistries
  /\ \E drawn \in getRandomInterval :
       LET tm == scheduleNextRefresh([timers |-> {}, refreshTimeout |-> None],
                                     feeds, now, drawn)
       IN timers = tm.timers /\ refreshTimeout = tm.refreshTimeout
  /\ isRefreshing = FALSE
  /\ schedScrapes = {}
  /\ manualOps = {}
  /\ addOps = {}
  /\ events = 0
  /\ notificationLog = << >>
  /\ clean = (\A i \in 1..Len(feeds) : feeds[i].lastChecked # None)
  /\ CustomIdle
  /\ TunnelIdle

\* refreshOldestFeed re-arming the timer before its scrape and without the
\* isRefreshing guard
refreshOldestFeedUnguarded(tmr) ==
  LET t == tmr.due
  IN /\ tmr \in timers
     /\ t >= now
     /\ Budget
     /\ now' = t
     /\ Len(feeds) > 0
     /\ isRefreshing' = TRUE
     /\ schedScrapes' = schedScrapes \cup
          {[feed |-> Oldest(feeds), platform |-> PlatformOf(Oldest(feeds)), at |-> t]}
     /\ \E drawn \in getRandomInterval :
          SetTimers(scheduleNextRefresh([timers |-> timers \ {tmr},
                                         refreshTimeout |-> refreshTimeout],
                                        feeds, t, drawn))
     /\ feeds' = feeds
     /\ UNCHANGED <<mode, manualOps, notificationLog, clean>>

\* The timer fires and refreshOldestFeed runs up to its first await.
refreshOldestFeed(tmr) ==
  LET t == tmr.due
      fired == [timers |-> timers \ {tmr}, refreshTimeout |-> refreshTimeout]
  IN /\ tmr \in timers
     /\ t >= now
     /\ Budget
     /\ now' = t
     /\ \/ /\ isRefreshing
           \* if (isRefreshing) { scheduleNextRefresh(); return; }
           /\ \E drawn \in getRandomInterval :
                SetTimers(scheduleNextRefresh(fired, feeds, t, drawn))
           /\ schedScrapes' = schedScrapes
           /\ UNCHANGED isRefreshing
        \/ /\ ~isRefreshing
           /\ Len(feeds) = 0
           \* scheduleNextRefresh(); isRefreshing = false; return; then finally
           /\ \E d1 \in getRandomInterval, d2 \in getRandomInterval :
                SetTimers(scheduleNextRefresh(scheduleNextRefresh(fired, feeds, t, d1),
                                              feeds, t, d2))
           /\ isRefreshing' = FALSE
           /\ schedScrapes' = schedScrapes
        \/ /\ ~isRefreshing
           /\ Len(feeds) > 0
           /\ isRefreshing' = TRUE
           /\ schedScrapes' = schedScrapes \cup
                {[feed |-> Oldest(feeds), platform |-> PlatformOf(Oldest(feeds)),
                  at |-> t]}
           /\ SetTimers(fired)
     /\ feeds' = feeds
     /\ UNCHANGED <<mode, manualOps, notificationLog, clean>>

\* a finally block that clears the flag and arms nothing
FinallyWithoutTimer(fs, t) ==
  /\ isRefreshing' = FALSE
  /\ UNCHANGED <<timers, refreshTimeout>>

\* finally { isRefreshing = false; scheduleNextRefresh(); }
Finally(fs, t) ==
  /\ isRefreshing' = FALSE
  /\ \E drawn \in getRandomInterval :
       SetTimers(scheduleNextRefresh(TimerState, fs, t, drawn))

\* The scrape and generateFeed of a scheduled refresh succeed.
SchedSuccess(s, posts, d) ==
  LET t == now + d
      written == SuccessWrite(feeds, s.feed.username, s.platform, posts, t)
  IN /\ s \in schedScrapes
     /\ CanPass(d)
     /\ now' = t
     /\ feeds' = written
     /\ notificationLog' = resolveNotificationsBySubstring(notificationLog, s.feed.username)
     /\ schedScrapes' = schedScrapes \ {s}
     /\ Finally(written, t)
     /\ UNCHANGED <<mode, manualOps, events, clean>>

\* The scrape (or generateFeed) of a scheduled refresh throws.
SchedFailure(s, d) ==
  LET t == now + d
      written == FailureWrite(feeds)
  IN /\ s \in schedScrapes
     /\ CanPass(d)
     /\ now' = t
     /\ notificationLog' = addNotification(notificationLog, "error", FailureUser(feeds))
     /\ feeds' = written
     /\ schedScrapes' = schedScrapes \ {s}
     /\ Finally(written, t)
     /\ clean' = FALSE
     /\ UNCHANGED <<mode, manualOps, events>>

\* ipcMain.handle('refresh-feed'): the handler starts its scrape
RefreshFeedStart(i) ==
  /\ i \in 1..Len(feeds)
  /\ Budget
  /\ manualOps' = manualOps \cup
       {[username |-> feeds[i].username, platform |-> PlatformOf(feeds[i])]}
  /\ UNCHANGED <<mode, now, feeds, refreshTimeout, timers, isRefreshing,
                 schedScrapes, notificationLog, clean>>

\* the write of 'refresh-feed' after its scrape succeeded
ManualWrite(fs, u, p, posts, t) ==
  LET real == RealPosts(posts)
  IN [i \in 1..Len(fs) |->
        IF fs[i].username = u /\ PlatformOf(fs[i]) = p
        THEN [fs[i] EXCEPT !.lastChecked = Some(t),
                           !.postCount = Len(posts),
                           !.latestPostDate =
                              IF real # {} THEN Some(MaxTimestamp(posts, real)) ELSE @]
        ELSE fs[i]]

RefreshFeedSuccess(m, posts, d) ==
  /\ m \in manualOps
  /\ CanPass(d)
  /\ now' = now + d
  /\ notificationLog' = resolveNotificationsBySubstring(notificationLog, m.username)
  /\ feeds' = ManualWrite(feeds, m.username, m.platform, posts, now')
  /\ manualOps' = manualOps \ {m}
  /\ UNCHANGED <<mode, refreshTimeout, timers, isRefreshing, schedScrapes, events,
                 clean>>

RefreshFeedFailure(m, d) ==
  /\ m \in manualOps
  /\ CanPass(d)
  /\ now' = now + d
  /\ notificationLog' = addNotification(notificationLog, "error", m.username)
  /\ manualOps' = manualOps \ {m}
  /\ clean' = FALSE
  /\ UNCHANGED <<mode, feeds, refreshTimeout, timers, isRefreshing, schedScrapes,
                 events>>

\* ipcMain.handle('remove-feed')
RemoveFeed(i) ==
  /\ i \in 1..Len(feeds)
  /\ Budget
  /\ feeds' = SelectSeq(feeds, LAMBDA f :
                ~(f.username = feeds[i].username /\ PlatformOf(f) = PlatformOf(feeds[i])))
  /\ UNCHANGED <<mode, now, refreshTimeout, timers, isRefreshing, schedScrapes,
                 manualOps, notificationLog, clean>>

Tick ==
  /\ \E tmr \in timers : refreshOldestFeed(tmr)
  /\ UNCHANGED <<addOps, customVars, tunnelVars>>

ScrapeOk ==
  /\ \E s \in schedScrapes, posts \in Results, d \in Elapsed : SchedSuccess(s, posts, d)
  /\ UNCHANGED <<addOps, customVars, tunnelVars>>

ScrapeFails ==
  /\ \E s \in schedScrapes, d \in Elapsed : SchedFailure(s, d)
  /\ UNCHANGED <<addOps, customVars, tunnelVars>>

ManualStart ==
  /\ \E i \in 1..Len(feeds) : RefreshFeedStart(i)
  /\ UNCHANGED <<addOps, customVars, tunnelVars>>

ManualOk ==
  /\ \E m \in manualOps, posts \in Results, d \in Elapsed : RefreshFeedSuccess(m, posts, d)
  /\ UNCHANGED <<addOps, customVars, tunnelVars>>

ManualFails ==
  /\ \E m \in manualOps, d \in Elapsed : RefreshFeedFailure(m, d)
  /\ UNCHANGED <<addOps, customVars, tunnelVars>>

Remove ==
  /\ \E i \in 1..Len(feeds) : RemoveFeed(i)
  /\ UNCHANGED <<addOps, customVars, tunnelVars>>

SchedNext == Tick \/ ScrapeOk \/ ScrapeFails \/ ManualStart \/ ManualOk \/ ManualFails \/ Remove

Init == SchedInit

Next == SchedNext

Spec == Init /\ [][Next]_vars

-----------------------------------------------------------------------------
(* The scheduler alone, one feed failing on every attempt *)

UserC == << "c" >>

\* checked 5 h ago: 50 min, less than two penalties, after Aged
Late == Some(StartTime - 18000)

StarveRegistries ==
  {<< FeedEntry(UserA, None, Aged), FeedEntry(UserB, Some("twitter"), Aged) >>,
   << FeedEntry(UserB, Some("twitter"), Late), FeedEntry(UserA, None, Aged) >>,
   << FeedEntry(UserA, None, Aged), FeedEntry(UserB, Some("twitter"), Fresh),
      FeedEntry(UserC, Some("linkedin"), Aged) >>}

StarveInit ==
  /\ mode = "starve"
  /\ now = StartTime
  /\ feeds \in StarveRegistries
  /\ \E drawn \in getRandomInterval :
       LET tm == scheduleNextRefresh([timers |-> {}, refreshTimeout |-> None],
                                     feeds, now, drawn)
       IN timers = tm.timers /\ refreshTimeout = tm.refreshTimeout
  /\ isRefreshing = FALSE
  /\ schedScrapes = {}
  /\ manualOps = {}
  /\ addOps = {}
  /\ events = 0
  /\ notificationLog = << >>
  /\ clean = TRUE
  /\ CustomIdle
  /\ TunnelIdle

\* every scrape of UserA throws
FailingScrape ==
  /\ \E s \in schedScrapes, d \in Elapsed : s.feed.username = UserA /\ SchedFailure(s, d)
  /\ UNCHANGED <<addOps, customVars, tunnelVars>>

\* every other scrape succeeds
WorkingScrape ==
  /\ \E s \in schedScrapes, posts \in Results, d \in Elapsed : s.feed.username # UserA /\ SchedSuccess(s, posts, d)
  /\ UNCHANGED <<addOps, customVars, tunnelVars>>

StarveNext == Tick \/ FailingScrape \/ WorkingScrape

SpecStarve == StarveInit /\ [][StarveNext]_vars

-----------------------------------------------------------------------------
(* Adding, renaming and removing feeds in the desktop app (main.js) *)

\* what parseProfileInput returns for the inputs explored: it always names a
\* platform
Profiles ==
  {[username |-> UserA, platform |-> "instagram"],
   [username |-> UserB, platform |-> "twitter"],
   [username |-> UserC, platform |-> "instagram"]}

\* feeds.find(f => f.username === username && (f.platform || 'instagram') === platform)
TrackedByIdentity(fs, u, p) ==
  \E i \in 1..Len(fs) : fs[i].username = u /\ PlatformOf(fs[i]) = p

\* feeds.find((f) => f.username === username && f.platform === platform)
Tracked(fs, u, p) ==
  \E i \in 1..Len(fs) : fs[i].username = u /\ fs[i].platform = Some(p)

\* an activation suspended at its scrape: the profile, the array store.get
\* returned before the scrape, and the request it belongs to
AddOp(prof, fs, id) ==
  [username |-> prof.username, platform |-> prof.platform, feeds |-> fs, id |-> id]

\* 'add-feed' up to its await: parse, read the registry, refuse a profile
\* already tracked, start the scrape
AddFeedStart(prof) ==
  /\ Budget
  /\ ~Tracked(feeds, prof.username, prof.platform)
  /\ addOps' = addOps \cup {AddOp(prof, feeds, events)}
  /\ UNCHANGED <<mode, now, feeds, refreshTimeout, timers, isRefreshing, schedScrapes,
                 manualOps, notificationLog, clean>>

\* the entry 'add-feed' builds
NewEntry(a, posts, t) ==
  LET real == RealPosts(posts)
  IN [username |-> a.username, platform |-> Some(a.platform), alias |-> a.username,
      lastChecked |-> Some(t), postCount |-> Len(posts),
      latestPostDate |-> IF real # {} THEN Some(MaxTimestamp(posts, real)) ELSE None]

\* the scrape returned posts: feeds.push(entry); store.set('feeds', feeds), on
\* the array read before the scrape
AddFeedSuccess(a, posts, d) ==
  /\ a \in addOps
  /\ Len(posts) >= 1
  /\ CanPass(d)
  /\ now' = now + d
  /\ feeds' = Append(a.feeds, NewEntry(a, posts, now'))
  /\ addOps' = addOps \ {a}
  /\ UNCHANGED <<mode, refreshTimeout, timers, isRefreshing, schedScrapes, manualOps,
                 events, notificationLog, clean>>

\* the scrape threw or found no posts: the handler throws, nothing is stored
AddFeedFailure(a, d) ==
  /\ a \in addOps
  /\ CanPass(d)
  /\ now' = now + d
  /\ addOps' = addOps \ {a}
  /\ UNCHANGED <<mode, feeds, refreshTimeout, timers, isRefreshing, schedScrapes,
                 manualOps, events, notificationLog, clean>>

\* the aliases a user types
Aliases == {<< "n", "e", "w", "s" >>}

\* ipcMain.handle('rename-feed'): the alias of every matching entry
RenameFeed(i, newAlias) ==
  /\ i \in 1..Len(feeds)
  /\ Budget
  /\ feeds' = [k \in 1..Len(feeds) |->
                IF /\ feeds[k].username = feeds[i].username
                   /\ PlatformOf(feeds[k]) = PlatformOf(feeds[i])
                THEN [feeds[k] EXCEPT !.alias = newAlias] ELSE feeds[k]]
  /\ UNCHANGED <<mode, now, refreshTimeout, timers, isRefreshing, schedScrapes,
                 manualOps, addOps, notificationLog, clean>>

\* the desktop registries explored: one entry written before entries carried a
\* platform, and one written since
OpsRegistries ==
  {<< FeedEntry(UserA, None, Aged) >>,
   << FeedEntry(UserA, Some("instagram"), Aged) >>}

OpsInit ==
  /\ mode = "ops"
  /\ now = StartTime
  /\ feeds \in OpsRegistries
  /\ \E drawn \in getRandomInterval :
       LET tm == scheduleNextRefresh([timers |-> {}, refreshTimeout |-> None],
                                     feeds, now, drawn)
       IN timers = tm.timers /\ refreshTimeout = tm.refreshTimeout
  /\ isRefreshing = FALSE
  /\ schedScrapes = {}
  /\ manualOps = {}
  /\ addOps = {}
  /\ events = 0
  /\ notificationLog = << >>
  /\ clean = TRUE
  /\ CustomIdle
  /\ TunnelIdle

AddStart ==
  /\ \E prof \in Profiles : AddFeedStart(prof)
  /\ UNCHANGED <<customVars, tunnelVars>>

AddOk ==
  /\ \E a \in addOps, posts \in Results, d \in Elapsed : AddFeedSuccess(a, posts, d)
  /\ UNCHANGED <<customVars, tunnelVars>>

AddFails ==
  /\ \E a \in addOps, d \in Elapsed : AddFeedFailure(a, d)
  /\ UNCHANGED <<customVars, tunnelVars>>

Rename ==
  /\ \E i \in 1..Len(feeds), newAlias \in Aliases : RenameFeed(i, newAlias)
  /\ UNCHANGED <<customVars, tunnelVars>>

OpsNext ==
  \/ Tick
  \/ ScrapeOk
  \/ ScrapeFails
  \/ ManualStart
  \/ ManualOk
  \/ ManualFails
  \/ Remove
  \/ Rename
  \/ AddStart
  \/ AddOk
  \/ AddFails

SpecOps == OpsInit /\ [][OpsNext]_vars

-----------------------------------------------------------------------------
(* The headless server: its refresher and management API (scraper-txt.js) *)

\* computeLatestPostDate(posts): the newest timestamp of the posts whose date
\* is not estimated or, when there are none, of all posts that have one
computeLatestPostDate(posts) ==
  LET real == RealPosts(posts)
      dated == {i \in 1..Len(posts) : posts[i].timestamp # None}
      candidates == IF real # {} THEN real ELSE dated
  IN IF candidates = {} THEN None ELSE Some(MaxTimestamp(posts, candidates))

\* the success write of the server's refreshOldestFeed:
\* computeLatestPostDate(posts) || currentFeeds[idx].latestPostDate || null
ServerSuccessWrite(fs, u, p, posts, t) ==
  LET idx == FindIndex(fs, u, p)
      latest == computeLatestPostDate(posts)
  IN IF idx = 0 THEN fs
     ELSE [fs EXCEPT ![idx] =
             [@ EXCEPT !.lastChecked = Some(t),
                       !.postCount = Len(posts),
                       !.latestPostDate = IF latest # None THEN latest ELSE @]]

\* profileData.posts of a scrape of the server that succeeds: those of the
\* desktop, one post with an estimated date, and two posts of which one has
\* no timestamp
ServerResults ==
  Results \cup
  {<< Post(Some(StartTime - 10), TRUE) >>,
   << Post(Some(StartTime - 20), TRUE), Post(None, TRUE) >>}

\* The scrape and generateFeed of a scheduled refresh of the server succeed.
ServerSuccess(s, posts, d) ==
  LET t == now + d
      written == ServerSuccessWrite(feeds, s.feed.username, s.platform, posts, t)
  IN /\ mode = "server"
     /\ s \in schedScrapes
     /\ CanPass(d)
     /\ now' = t
     /\ feeds' = written
     /\ schedScrapes' = schedScrapes \ {s}
     /\ Finally(written, t)
     /\ UNCHANGED <<mode, manualOps, addOps, events, notificationLog, clean>>

\* The scrape of a scheduled refresh of the server throws: the bump, and a
\* line on the console
ServerFailure(s, d) ==
  LET t == now + d
      written == FailureWrite(feeds)
  IN /\ mode = "server"
     /\ s \in schedScrapes
     /\ CanPass(d)
     /\ now' = t
     /\ feeds' = written
     /\ schedScrapes' = schedScrapes \ {s}
     /\ Finally(written, t)
     /\ clean' = FALSE
     /\ UNCHANGED <<mode, manualOps, addOps, events, notificationLog>>

\* POST /feeds up to its await
PostFeedsStart(prof) ==
  /\ mode = "server"
  /\ Budget
  /\ ~TrackedByIdentity(feeds, prof.username, prof.platform)
  /\ addOps' = addOps \cup {AddOp(prof, feeds, events)}
  /\ UNCHANGED <<mode, now, feeds, refreshTimeout, timers, isRefreshing, schedScrapes,
                 manualOps, notificationLog, clean>>

\* the entry POST /feeds builds
PostedEntry(a, posts, t) ==
  [username |-> a.username, platform |-> Some(a.platform), alias |-> a.username,
   lastChecked |-> Some(t), postCount |-> Len(posts),
   latestPostDate |-> computeLatestPostDate(posts)]

\* 201: feeds.push(entry); store.set('feeds', feeds)
PostFeedsSuccess(a, posts, d) ==
  /\ mode = "server"
  /\ a \in addOps
  /\ Len(posts) >= 1
  /\ CanPass(d)
  /\ now' = now + d
  /\ feeds' = Append(a.feeds, PostedEntry(a, posts, now'))
  /\ addOps' = addOps \ {a}
  /\ UNCHANGED <<mode, refreshTimeout, timers, isRefreshing, schedScrapes, manualOps,
                 events, notificationLog, clean>>

\* 422 or 500: nothing is stored
PostFeedsFailure(a, d) ==
  /\ mode = "server"
  /\ a \in addOps
  /\ CanPass(d)
  /\ now' = now + d
  /\ addOps' = addOps \ {a}
  /\ UNCHANGED <<mode, feeds, refreshTimeout, timers, isRefreshing, schedScrapes,
                 manualOps, events, notificationLog, clean>>

\* DELETE /feeds naming a feed of the registry
DeleteFeeds(i) ==
  /\ mode = "server"
  /\ i \in 1..Len(feeds)
  /\ Budget
  /\ feeds' = SelectSeq(feeds, LAMBDA f :
                ~(f.username = feeds[i].username /\ PlatformOf(f) = PlatformOf(feeds[i])))
  /\ UNCHANGED <<mode, now, refreshTimeout, timers, isRefreshing, schedScrapes,
                 manualOps, addOps, notificationLog, clean>>

ServerInit ==
  /\ mode = "server"
  /\ now = StartTime
  /\ feeds \in InitRegistries
  /\ \E drawn \in getRandomInterval :
       LET tm == scheduleNextRefresh([timers |-> {}, refreshTimeout |-> None],
                                     feeds, now, drawn)
       IN timers = tm.timers /\ refreshTimeout = tm.refreshTimeout
  /\ isRefreshing = FALSE
  /\ schedScrapes = {}
  /\ manualOps = {}
  /\ addOps = {}
  /\ events = 0
  /\ notificationLog = << >>
  /\ clean = (\A i \in 1..Len(feeds) : feeds[i].lastChecked # None)
  /\ CustomIdle
  /\ TunnelIdle

ServerScrapeOk ==
  /\ \E s \in schedScrapes, posts \in ServerResults, d \in Elapsed : ServerSuccess(s, posts, d)
  /\ UNCHANGED <<customVars, tunnelVars>>

ServerScrapeFails ==
  /\ \E s \in schedScrapes, d \in Elapsed : ServerFailure(s, d)
  /\ UNCHANGED <<customVars, tunnelVars>>

PostStart ==
  /\ \E prof \in Profiles : PostFeedsStart(prof)
  /\ UNCHANGED <<customVars, tunnelVars>>

PostOk ==
  /\ \E a \in addOps, posts \in ServerResults, d \in Elapsed : PostFeedsSuccess(a, posts, d)
  /\ UNCHANGED <<customVars, tunnelVars>>

PostFails ==
  /\ \E a \in addOps, d \in Elapsed : PostFeedsFailure(a, d)
  /\ UNCHANGED <<customVars, tunnelVars>>

Delete ==
  /\ \E i \in 1..Len(feeds) : DeleteFeeds(i)
  /\ UNCHANGED <<customVars, tunnelVars>>

ServerNext ==
  \/ Tick
  \/ ServerScrapeOk
  \/ ServerScrapeFails
  \/ PostStart
  \/ PostOk
  \/ PostFails
  \/ Delete

SpecServer == ServerInit /\ [][ServerNext]_vars

\* the desktop app or the server, whichever was started
RegistryInit == OpsInit \/ ServerInit

RegistryNext ==
  \/ Tick
  \/ mode = "ops" /\ ScrapeOk
  \/ mode = "ops" /\ ScrapeFails
  \/ mode = "ops" /\ ManualStart
  \/ mode = "ops" /\ ManualOk
  \/ mode = "ops" /\ ManualFails
  \/ mode = "ops" /\ Remove
  \/ mode = "ops" /\ Rename
  \/ mode = "ops" /\ AddStart
  \/ mode = "ops" /\ AddOk
  \/ mode = "ops" /\ AddFails
  \/ ServerScrapeOk
  \/ ServerScrapeFails
  \/ PostStart
  \/ PostOk
  \/ PostFails
  \/ Delete

SpecRegistry == RegistryInit /\ [][RegistryNext]_vars

-----------------------------------------------------------------------------
(* Strings, URLs and dates of the custom-site scraper (scraper-custom.js)  *)
(*                                                                         *)
(* A text is the sequence of its characters.  A URL is the record of its   *)
(* scheme, the labels of its host and the rest; the empty string is        *)
(* EmptyUrl.  A date string is a sequence of tokens: a date-time with its  *)
(* UTC offset in minutes ("2024-01-01T01:00:00+02:00"), a bracketed        *)
(* annotation ("[America/Edmonton]"), a space, or a word.  An ISO string   *)
(* written by toISOString is the record of its fields.                     *)

\* new URL(url) does not throw
IsUrl(url) == url.scheme \in {"http", "https"} /\ url.host # << >>

\* u.hostname.replace(/^www\./, ''), or 'custom-feed' when new URL throws
deriveFeedName(url) ==
  IF ~IsUrl(url) THEN << "custom-feed" >>
  ELSE IF Len(url.host) > 1 /\ url.host[1] = "www" THEN Tail(url.host)
  ELSE url.host

Tok(k, y, mo, d, h, mi, sec, off, w) ==
  [k |-> k, y |-> y, mo |-> mo, d |-> d, h |-> h, mi |-> mi, s |-> sec, off |-> off, w |-> w]

Stamp(y, mo, d, h, mi, sec, off) == Tok("stamp", y, mo, d, h, mi, sec, off, "")

Annot(zone) == Tok("annot", 0, 0, 0, 0, 0, 0, 0, zone)

Space == Tok("space", 0, 0, 0, 0, 0, 0, 0, " ")

Word(w) == Tok("word", 0, 0, 0, 0, 0, 0, 0, w)

\* String.prototype.trim on a date string
RECURSIVE TrimLeft(_)
TrimLeft(str) ==
  IF str # << >> /\ Head(str) = Space THEN TrimLeft(Tail(str)) ELSE str

RECURSIVE TrimRight(_)
TrimRight(str) ==
  IF str # << >> /\ str[Len(str)] = Space THEN TrimRight(SubSeq(str, 1, Len(str) - 1))
  ELSE str

Trim(str) == TrimRight(TrimLeft(str))

\* String.prototype.trim on a text
RECURSIVE TrimTextLeft(_)
TrimTextLeft(str) ==
  IF str # << >> /\ Head(str) = " " THEN TrimTextLeft(Tail(str)) ELSE str

RECURSIVE TrimTextRight(_)
TrimTextRight(str) ==
  IF str # << >> /\ str[Len(str)] = " " THEN TrimTextRight(SubSeq(str, 1, Len(str) - 1))
  ELSE str

TrimText(str) == TrimTextRight(TrimTextLeft(str))

\* item.date.replace(/\[.*?\]/g, '')
StripAnnotations(str) == SelectSeq(str, LAMBDA tok : tok.k # "annot")

IsLeap(y) == y % 4 = 0 /\ (y % 100 # 0 \/ y % 400 = 0)

DaysInMonth(y, mo) ==
  IF mo = 2 THEN (IF IsLeap(y) THEN 29 ELSE 28)
  ELSE IF mo \in {4, 6, 9, 11} THEN 30 ELSE 31

\* days from 1970-01-01 to the civil date y-mo-d
DaysFromCivil(y, mo, d) ==
  LET yy == IF mo <= 2 THEN y - 1 ELSE y
      era == yy \div 400
      yoe == yy - era * 400
      doy == (153 * (IF mo > 2 THEN mo - 3 ELSE mo + 9) + 2) \div 5 + d - 1
      doe == yoe * 365 + yoe \div 4 - yoe \div 100 + doy
  IN era * 146097 + doe - 719468

\* the civil date of a day counted from 1970-01-01
CivilFromDays(days) ==
  LET z == days + 719468
      era == z \div 146097
      doe == z - era * 146097
      yoe == (doe - doe \div 1460 + doe \div 36524 - doe \div 146096) \div 365
      doy == doe - (365 * yoe + yoe \div 4 - yoe \div 100)
      mp == (5 * doy + 2) \div 153
      mo == IF mp < 10 THEN mp + 3 ELSE mp - 9
  IN [y |-> yoe + era * 400 + (IF mo <= 2 THEN 1 ELSE 0),
      mo |-> mo,
      d |-> doy - (153 * mp + 2) \div 5 + 1]

\* new Date(str).getTime() in seconds: None is NaN (Invalid Date)
ParseDate(str) ==
  IF Len(str) # 1 \/ str[1].k # "stamp" THEN None
  ELSE LET tok == str[1]
       IN IF /\ tok.mo \in 1..12
             /\ tok.d \in 1..DaysInMonth(tok.y, tok.mo)
             /\ tok.h \in 0..23 /\ tok.mi \in 0..59 /\ tok.s \in 0..59
          THEN Some(DaysFromCivil(tok.y, tok.mo, tok.d) * 86400
                    + tok.h * 3600 + tok.mi * 60 + tok.s - tok.off * 60)
          ELSE None

\* new Date(seconds * 1000).toISOString(): "YYYY-MM-DDTHH:mm:ss.sssZ"
toISOString(secs) ==
  LET c == CivilFromDays(secs \div 86400)
      r == secs % 86400
  IN [y |-> c.y, mo |-> c.mo, d |-> c.d,
      h |-> r \div 3600, mi |-> (r % 3600) \div 60, s |-> r % 60, ms |-> 0, zone |-> "Z"]

-----------------------------------------------------------------------------
(* Normalisation: buildProfileData *)

NoTitle == << "(", "n", "o", " ", "t", "i", "t", "l", "e", ")" >>

\* the timestamp of a post, for an item normalised at time t
timestampNoStrip(item, t) ==
  IF item.date = << >> THEN toISOString(t)
  ELSE LET parsed == ParseDate(Trim(item.date))
       IN IF parsed = None THEN toISOString(t) ELSE toISOString(parsed[1])

timestamp(item, t) ==
  IF item.date = << >> THEN toISOString(t)
  ELSE LET cleaned == Trim(StripAnnotations(item.date))
           parsed == ParseDate(cleaned)
       IN IF parsed = None THEN toISOString(t) ELSE toISOString(parsed[1])

\* timestampEstimated: !item.date
timestampEstimated(item) == item.date = << >>

\* one element of posts: item is items[idx + 1]
NormalizedPost(item, idx, pageUrl, t) ==
  [id |-> IF item.link # EmptyUrl THEN [base |-> item.link, item |-> -1]
          ELSE [base |-> pageUrl, item |-> idx],
   shortcode |-> idx,
   caption |-> IF item.title # << >> THEN item.title
               ELSE IF item.text # << >> THEN item.text
               ELSE NoTitle,
   timestamp |-> timestamp(item, t),
   timestampEstimated |-> timestampEstimated(item),
   imageUrl |-> item.image,
   isVideo |-> FALSE,
   videoUrl |-> None,
   likes |-> 0,
   comments |-> 0,
   permalink |-> IF item.link # EmptyUrl THEN item.link ELSE pageUrl]

\* items is None when the argument is undefined
buildProfileData(items, feedName, pageUrl, t) ==
  LET list == IF items = None THEN << >> ELSE items[1]
  IN [fullName |-> IF feedName # << >> THEN feedName ELSE deriveFeedName(pageUrl),
      biography |-> pageUrl,
      posts |-> [idx \in 1..Len(list) |-> NormalizedPost(list[idx], idx - 1, pageUrl, t)]]

-----------------------------------------------------------------------------
(* Extraction: EXTRACT_ITEM_JS on one element *)

\* An element is what the script reads of it: a is its first a[href] (href and
\* innerText), heading its first h1..h6, bold its first b or strong, img the src
\* of its first img[src], datetime the attribute of its first time[datetime],
\* time the innerText of its first time, innerText its own text.  An absent
\* node is None.
TextLimit == 500

substring(str, n) == SubSeq(str, 1, IF Len(str) < n THEN Len(str) ELSE n)

ExtractItem(el) ==
  LET link == IF el.a # None /\ el.a[1].href # EmptyUrl /\ el.a[1].href.scheme # "javascript"
              THEN el.a[1].href ELSE EmptyUrl
      title == IF el.heading # None THEN TrimText(el.heading[1])
               ELSE IF el.a # None THEN TrimText(el.a[1].innerText)
               ELSE IF el.bold # None THEN TrimText(el.bold[1])
               ELSE << >>
      date == IF el.datetime # None THEN el.datetime[1]
              ELSE IF el.time # None THEN Trim(el.time[1])
              ELSE << >>
      fullText == TrimText(el.innerText)
  IN [title |-> title,
      text |-> IF Len(fullText) > 0 /\ fullText # title THEN substring(fullText, TextLimit)
               ELSE << >>,
      link |-> link,
      image |-> IF el.img # None THEN el.img[1] ELSE EmptyUrl,
      date |-> date]

\* document.querySelectorAll(selector), each element through the script
ExtractItems(els) == [idx \in 1..Len(els) |-> ExtractItem(els[idx])]

-----------------------------------------------------------------------------
(* JavaScript values that reach scrollCount *)

JsNum(n) == [k |-> "num", n |-> n, str |-> << >>]

JsStr(str) == [k |-> "str", n |-> 0, str |-> str]

JsNull == [k |-> "null", n |-> 0, str |-> << >>]

\* !v
Falsy(v) ==
  \/ v.k = "null"
  \/ v.k = "num" /\ v.n = 0
  \/ v.k = "str" /\ v.str = << >>

Digits == << "0", "1", "2", "3", "4", "5", "6", "7", "8", "9" >>

IsDigit(c) == \E n \in 1..10 : Digits[n] = c

DigitValue(c) == (CHOOSE n \in 1..10 : Digits[n] = c) - 1

\* the value of the longest prefix of digits of str, read after acc
RECURSIVE ReadDigits(_, _)
ReadDigits(str, acc) ==
  IF str = << >> \/ ~IsDigit(Head(str)) THEN acc
  ELSE ReadDigits(Tail(str), 10 * acc + DigitValue(Head(str)))

\* parseInt(v, 10): None is NaN
parseInt(v) ==
  IF v.k = "num" THEN Some(v.n)
  ELSE IF v.k = "null" THEN None
  ELSE LET str == TrimTextLeft(v.str)
           neg == str # << >> /\ Head(str) = "-"
           body == IF str # << >> /\ Head(str) \in {"-", "+"} THEN Tail(str) ELSE str
       IN IF body = << >> \/ ~IsDigit(Head(body)) THEN None
          ELSE Some((IF neg THEN -1 ELSE 1) * ReadDigits(body, 0))

\* parseInt(scrollCount, 10) || 0
NumScrolls(scrollCount) ==
  IF parseInt(scrollCount) = None THEN 0 ELSE parseInt(scrollCount)[1]

-----------------------------------------------------------------------------
(* The page the selector script runs in (injectSelector)                   *)
(*                                                                         *)
(* A document is the sequence of its elements in document order; each      *)
(* element names its parent by position (0 for the root).  A class is the  *)
(* record of its leading variant ("hover:", "lg:", "" when it has none)    *)
(* and the rest of its name.  A selector is kept in parsed form, so        *)
(* CSS.escape and the quoting of attribute values have nothing to change.  *)

\* var dataAttrs = [...]
dataAttrs == << "data-testid", "data-element-name", "data-type", "role", "data-qa", "data-id" >>

AttrNames == {dataAttrs[n] : n \in 1..Len(dataAttrs)}

NoAttrs == [name \in AttrNames |-> ""]

Class(variant, name) == [variant |-> variant, name |-> name]

Plain(name) == Class("", name)

\* the prefixes the stable-class filter rejects
UnstablePrefixes ==
  {"hover:", "active:", "focus:", "focus-within:", "group-hover:", "group-focus:",
   "disabled:", "visited:", "checked:", "open:", "sm:", "md:", "lg:", "xl:", "2xl:",
   "xs:", "dark:", "motion-", "aria-", "data-["}

IsStable(cls) == cls.variant \notin UnstablePrefixes

\* tag.toLowerCase()
toLowerCase(tag) ==
  CASE tag = "DIV" -> "div" [] tag = "UL" -> "ul" [] tag = "LI" -> "li"
    [] tag = "SPAN" -> "span" [] tag = "H2" -> "h2" [] tag = "IMG" -> "img"
    [] tag = "A" -> "a" [] tag = "TIME" -> "time" [] tag = "BODY" -> "body"
    [] tag = "HTML" -> "html" [] tag = "INPUT" -> "input" [] tag = "BUTTON" -> "button"
    [] tag = "P" -> "p" [] tag = "SECTION" -> "section" [] OTHER -> tag

\* one element: href, src and datetime are its attributes of that name, text
\* the text it holds itself
Node(tag, id, classes, attrs, parent, href, src, datetime, text) ==
  [tagName |-> tag, id |-> id, classList |-> classes, attrs |-> attrs,
   parent |-> parent, href |-> href, src |-> src, datetime |-> datetime, text |-> text]

\* an element that has a tag, classes and a parent only
Box(tag, id, classes, parent) ==
  Node(tag, id, classes, NoAttrs, parent, None, None, None, << >>)

\* a simple selector: tag, #id, [attr="val"] and .classes, "" or << >> when absent
Simple(tag, id, attr, val, classes) ==
  [tag |-> tag, id |-> id, attr |-> attr, val |-> val, classes |-> classes]

NoSimple == Simple("", "", "", "", << >>)

\* scope > item, or item alone when scope is NoSimple
Selector(scope, item) == [scope |-> scope, item |-> item]

Has(classes, cls) == \E n \in 1..Len(classes) : classes[n] = cls

MatchesSimple(node, sel) ==
  /\ sel.tag = "" \/ toLowerCase(node.tagName) = sel.tag
  /\ sel.id = "" \/ node.id = sel.id
  /\ sel.attr = "" \/ node.attrs[sel.attr] = sel.val
  /\ \A n \in 1..Len(sel.classes) : Has(node.classList, sel.classes[n])

\* document.querySelectorAll(sel), as the set of positions
querySelectorAll(dom, sel) ==
  {n \in 1..Len(dom) :
     /\ MatchesSimple(dom[n], sel.item)
     /\ sel.scope # NoSimple =>
          dom[n].parent # 0 /\ MatchesSimple(dom[dom[n].parent], sel.scope)}

\* el is n or an ancestor of n
RECURSIVE Contains(_, _, _)
Contains(dom, el, n) ==
  IF n = 0 THEN FALSE
  ELSE IF n = el THEN TRUE
  ELSE Contains(dom, el, dom[n].parent)

\* the descendants of el
Descendants(dom, el) == {n \in (el + 1)..Len(dom) : Contains(dom, el, n)}

\* getSimpleSelector(el): None is null
getSimpleSelector(dom, el) ==
  LET node == dom[el]
      tag == toLowerCase(node.tagName)
      testId == node.attrs["data-testid"]
      byTestId == Selector(NoSimple, Simple(tag, "", "data-testid", testId, << >>))
      byClasses == Selector(NoSimple, Simple(tag, "", "", "", node.classList))
      byClass(n) == Selector(NoSimple, Simple(tag, "", "", "", << node.classList[n] >>))
      rare == {n \in 1..Len(node.classList) :
                 Cardinality(querySelectorAll(dom, byClass(n))) <= 3}
  IN IF node.id # "" THEN Some(Simple("", node.id, "", "", << >>))
     ELSE IF testId # "" /\ Cardinality(querySelectorAll(dom, byTestId)) <= 3
       THEN Some(byTestId.item)
     ELSE IF Len(node.classList) > 0 /\ Cardinality(querySelectorAll(dom, byClasses)) = 1
       THEN Some(byClasses.item)
     ELSE IF rare # {}
       THEN Some(byClass(CHOOSE n \in rare : \A other \in rare : n <= other).item)
     ELSE None

documentElement == 1

body == 2

\* the least position of a set, 0 when it is empty: the first match in
\* document order
First(S) == IF S = {} THEN 0 ELSE CHOOSE n \in S : \A other \in S : n <= other

\* the selector's ends of the accepted range of matches
MinMatches == 2

MaxMatches == 500

\* lifts the ceiling of the accepted range
InRangeNoCeiling(count) == count >= MinMatches

\* matches.length >= 2 && matches.length <= 500
InRange(count) == count >= MinMatches /\ count <= MaxMatches

Candidate(container, selector, count) ==
  [container |-> container, selector |-> selector, count |-> count]

\* !bestResult || matches.length <= bestResult.count
Better(bestResult, count) == bestResult = None \/ count <= bestResult[1].count

maxDepth == 15

\* the loop of findRepeatingContainer from current at depth with bestResult
RECURSIVE Walk(_, _, _, _)
Walk(dom, current, depth, bestResult) ==
  IF current = 0 \/ current = body \/ current = documentElement \/ depth >= maxDepth
  THEN bestResult
  ELSE
    LET parent == dom[current].parent
        tagName == dom[current].tagName
        tag == toLowerCase(tagName)
        siblings == {n \in 1..Len(dom) : dom[n].parent = parent /\ dom[n].tagName = tagName}
        \* Strategy 1: a data attribute shared among siblings
        attrSel(ai) ==
          Selector(NoSimple, Simple(tag, "", dataAttrs[ai], dom[current].attrs[dataAttrs[ai]], << >>))
        byAttr ==
          {ai \in 1..Len(dataAttrs) :
             LET attrVal == dom[current].attrs[dataAttrs[ai]]
             IN /\ attrVal # ""
                /\ Cardinality({sib \in siblings : dom[sib].attrs[dataAttrs[ai]] = attrVal}) >= 2
                /\ InRange(Cardinality(querySelectorAll(dom, attrSel(ai))))}
        \* Strategy 2: shared stable classes
        Shared(cls) ==
          /\ IsStable(cls)
          /\ LET count == Cardinality({sib \in siblings : Has(dom[sib].classList, cls)})
             IN count >= 2 /\ 2 * count >= Cardinality(siblings)
        sharedClasses == SelectSeq(dom[current].classList, Shared)
        classSel == Selector(NoSimple, Simple(tag, "", "", "", sharedClasses))
        matches == Cardinality(querySelectorAll(dom, classSel))
        byClass == sharedClasses # << >> /\ InRange(matches)
        afterClass == IF byClass /\ Better(bestResult, matches)
                      THEN Some(Candidate(current, classSel, matches))
                      ELSE bestResult
        inside == Descendants(dom, current)
        cardLike == /\ \E d \in inside : dom[d].tagName = "IMG"
                    /\ \E d \in inside : dom[d].tagName = "A" /\ dom[d].href # None
        parentSel == getSimpleSelector(dom, parent)
        scopedSel == Selector(parentSel[1], classSel.item)
        scopedMatches == Cardinality(querySelectorAll(dom, scopedSel))
        \* Strategy 3: parent > tag
        childSel == Selector(parentSel[1], Simple(tag, "", "", "", << >>))
        children == Cardinality(querySelectorAll(dom, childSel))
        afterChild == IF parentSel # None /\ InRange(children) /\ Better(afterClass, children)
                      THEN Some(Candidate(current, childSel, children))
                      ELSE afterClass
    IN IF parent = 0 THEN bestResult
       ELSE IF Cardinality(siblings) < 2 THEN Walk(dom, parent, depth + 1, bestResult)
       ELSE IF byAttr # {}
         THEN Some(Candidate(current, attrSel(First(byAttr)),
                             Cardinality(querySelectorAll(dom, attrSel(First(byAttr))))))
       ELSE IF byClass /\ cardLike THEN afterClass
       ELSE IF sharedClasses # << >> /\ matches > MaxMatches /\ parentSel # None
               /\ InRange(scopedMatches)
         THEN Some(Candidate(current, scopedSel, scopedMatches))
       ELSE Walk(dom, parent, depth + 1, afterChild)

\* findRepeatingContainer(el): None is null
findRepeatingContainer(dom, el) == Walk(dom, el, 0, None)

-----------------------------------------------------------------------------
(* Inputs of the custom-site scraper *)

\* the largest scroll count tried
MaxScrolls == 3

ExampleNews == Url("https", << "www", "example", "com" >>, "/news")

ExampleBlog == Url("https", << "blog", "example", "org" >>, "/")

\* typed without a scheme
BareSite == Url("", << "www", "example", "com" >>, "")

NotAUrl == Url("", << >>, "not a url")

AboutBlank == Url("about", << >>, "blank")

Headline == << "N", "e", "w", "s" >>

\* "2024-01-01T00:00:00Z"
NewYear == << Stamp(2024, 1, 1, 0, 0, 0, 0) >>

\* "2024-01-01T01:00:00+02:00"
NewYearEast == << Stamp(2024, 1, 1, 1, 0, 0, 120) >>

\* "2024-03-10T09:30:00-07:00[America/Edmonton]"
Annotated == << Stamp(2024, 3, 10, 9, 30, 0, -420), Annot("America/Edmonton") >>

\* "2024-13-01T00:00:00Z"
ThirteenthMonth == << Stamp(2024, 13, 1, 0, 0, 0, 0) >>

\* " 2 hours ago "
TwoHoursAgo == << Space, Word("2"), Space, Word("hours"), Space, Word("ago"), Space >>

Element(a, heading, bold, img, datetime, time, innerText) ==
  [a |-> a, heading |-> heading, bold |-> bold, img |-> img, datetime |-> datetime,
   time |-> time, innerText |-> innerText]

Anchor(href, innerText) == [href |-> href, innerText |-> innerText]

\* a card with a heading, an image, a link and a machine-readable time
Card(datetime) ==
  Element(Some(Anchor(ExampleNews, << "m", "o", "r", "e" >>)), Some(Headline), None,
          Some(Url("https", << "cdn", "example", "com" >>, "/a.png")), Some(datetime),
          Some(TwoHoursAgo), << " " >> \o Headline \o << " ", "m", "o", "r", "e" >>)

\* a link and nothing else: no date
PlainLink ==
  Element(Some(Anchor(ExampleBlog, << " ", "A", " " >>)), None, None, None, None, None,
          << "A" >>)

\* bold text, a javascript: link and a time element that has only text
RelativeTime ==
  Element(Some(Anchor(Url("javascript", << >>, "void(0)"), << >>)), None,
          Some(<< "B" >>), None, None, Some(TwoHoursAgo),
          << "B", " ", "2", " ", "h" >>)

\* no node at all
Bare == Element(None, None, None, None, None, None, << >>)

Elements ==
  {Card(NewYear), Card(NewYearEast), Card(Annotated), Card(ThirteenthMonth), PlainLink,
   RelativeTime, Bare}

-----------------------------------------------------------------------------
(* The interactive wizard: startCustomWizard *)

\* what the user typed in the add-feed dialog
SiteUrls == {BareSite, ExampleBlog, NotAUrl}

\* where the wizard's page can be when a load finishes
PageUrls == {ExampleNews, ExampleBlog, AboutBlank}

\* data of 'navigate-to'
NavigateData == {ExampleNews, NotAUrl}

\* data of 'confirm-items': undefined, {} or { selector, items, feedName }
Selection(selector, items, feedName) ==
  [selector |-> selector, items |-> items, feedName |-> feedName]

EmptySelection == Selection(None, None, << >>)

ConfirmData ==
  {None, Some(EmptySelection),
   Some(Selection(Some(Selector(NoSimple, Simple("", "", "", "", << Plain("card") >>))),
                  Some(ExtractItems(<< Card(NewYear), PlainLink >>)),
                  << "News" >>))}

\* data of 'finish-scroll': null or { scrollSelector, scrollCount }
ScrollData ==
  {None,
   Some([scrollSelector |-> None, scrollCount |-> JsNum(0)]),
   Some([scrollSelector |-> Some(".list"), scrollCount |-> JsNum(MaxScrolls)])}

\* if (!/^https?:\/\//i.test(siteUrl)) siteUrl = 'https://' + siteUrl
NormaliseSiteUrl(siteUrl) ==
  IF siteUrl.scheme \in {"http", "https"} THEN siteUrl
  ELSE IF siteUrl.host # << >> THEN Url("https", siteUrl.host, siteUrl.path)
  ELSE Url("", << >>, "https://" \o siteUrl.path)

WizardInit ==
  /\ mode = "wizard"
  /\ now = StartTime
  /\ step = "login"
  /\ targetUrl \in {NormaliseSiteUrl(siteUrl) : siteUrl \in SiteUrls}
  /\ settled = FALSE
  /\ wizardWin = [destroyed |-> FALSE, closedPending |-> FALSE, selectionData |-> None]
  /\ promise = Pending
  /\ settleCalls = 0
  /\ others = << >>
  /\ ignored = None
  /\ confirmedOn = None
  /\ page = ""
  /\ toolbar = "none"
  /\ NoScript
  /\ sent = << >>
  /\ HeadlessIdle
  /\ ExtractIdle
  /\ SchedIdle
  /\ TunnelIdle

\* the modes that have a wizard session
WizardMode == mode \in {"wizard", "select"}

WizardFrame ==
  UNCHANGED <<mode, now, schedVars, tunnelVars, hlVars, exVars, others, ignored, confirmedOn>>

\* const u = new URL(siteUrl); origin = u.origin; or siteUrl when that throws
origin(siteUrl) ==
  IF IsUrl(siteUrl) THEN Url(siteUrl.scheme, siteUrl.host, "") ELSE siteUrl

\* wizardWin.webContents.getURL() where the document shown is followed: the
\* documents of the selector step are what loadURL(origin) brought, the root
\* of the site.  Where the document is not followed, EmptyUrl.
getURL ==
  IF page = "" THEN EmptyUrl
  ELSE Url(origin(ExampleNews).scheme, origin(ExampleNews).host, "/")

Rejected(message) == [state |-> "rejected", error |-> message, value |-> None]

Resolved(value) == [state |-> "resolved", error |-> "", value |-> Some(value)]

\* destroy() closes the window at once; its 'closed' event is delivered after
Destroy(win) ==
  IF win.destroyed THEN win ELSE [win EXCEPT !.destroyed = TRUE, !.closedPending = TRUE]

\* finish without its guard
finishUnguarded(win, result) ==
  /\ settled' = TRUE
  /\ settleCalls' = settleCalls + 1
  /\ promise' = IF promise.state = "pending" THEN result ELSE promise
  /\ wizardWin' = Destroy(win)

\* const finish = (err, result) => { ... }: win is the window as the handler has
\* left it, result the rejection or the value
finish(win, result) ==
  IF settled
  THEN /\ wizardWin' = win
       /\ UNCHANGED <<settled, settleCalls, promise>>
  ELSE /\ settled' = TRUE
       /\ settleCalls' = settleCalls + 1
       /\ promise' = IF promise.state = "pending" THEN result ELSE promise
       /\ wizardWin' = Destroy(win)

\* the steps injectToolbar has a branch for
ToolbarSteps == {"login", "navigate", "navigate-loading"}

\* injectToolbar(win, step, targetUrl): remove the old bar and append a new
\* one, filled by the branch of the step; for a step without a branch the
\* bar is appended empty
injectToolbar(win, s) ==
  toolbar' = IF win.destroyed THEN toolbar
             ELSE IF s \in ToolbarSteps THEN s ELSE "empty"

\* injectScrollStep(win): the bar of the scroll step
injectScrollStep(win) ==
  toolbar' = IF win.destroyed THEN toolbar ELSE "scroll"

\* a new document replaces the page and the selector script with it
scriptLost ==
  /\ listening' = FALSE
  /\ selectorMode' = FALSE
  /\ selectedSelector' = None
  /\ selectedEls' = << >>
  /\ target' = 0
  /\ alert' = ""

\* webContents 'did-finish-load'
DidFinishLoad(currentUrl) ==
  LET loaded == IF step = "navigate-loading" THEN "navigate" ELSE step
  IN /\ WizardMode
     /\ ~wizardWin.destroyed
     /\ step' = loaded
     /\ targetUrl' = IF /\ loaded \in {"navigate", "select"}
                        /\ currentUrl # EmptyUrl
                        /\ currentUrl.scheme # "about"
                     THEN currentUrl ELSE targetUrl
     /\ scriptLost
     /\ injectToolbar(wizardWin, loaded)
     /\ UNCHANGED <<settled, wizardWin, promise, settleCalls, page>>
     /\ WizardFrame

\* A load of the wizard window fails: the window shows the error page, and
\* the promise loadURL returned rejects.  The wizard listens to neither: it has
\* no 'did-fail-load' handler and drops the promise.
DidFailLoad ==
  /\ WizardMode
  /\ ~wizardWin.destroyed
  /\ scriptLost
  /\ toolbar' = "none"
  /\ UNCHANGED <<step, targetUrl, settled, wizardWin, promise, settleCalls, page>>
  /\ WizardFrame

\* The 'ipc-message' handler.  No case looks at step, and a message the page
\* sent before the window went away is still handled.
LoginDone ==
  /\ WizardMode
  /\ step' = "navigate"
  /\ injectToolbar(wizardWin, "navigate")
  /\ UNCHANGED <<targetUrl, settled, wizardWin, promise, settleCalls, page, scriptVars>>
  /\ WizardFrame

NavigateTo(data) ==
  /\ WizardMode
  /\ targetUrl' = data
  /\ step' = "navigate-loading"
  /\ UNCHANGED <<settled, wizardWin, promise, settleCalls, page, toolbar, scriptVars>>
  /\ WizardFrame

\* injectSelector(win): a fresh script with its toolbar and listeners
injectSelector ==
  IF wizardWin.destroyed THEN UNCHANGED <<toolbar, scriptVars>>
  ELSE /\ toolbar' = "select"
       /\ listening' = TRUE
       /\ selectorMode' = TRUE
       /\ selectedSelector' = None
       /\ selectedEls' = << >>
       /\ UNCHANGED <<target, alert>>

StartSelector ==
  /\ WizardMode
  /\ step' = "select"
  /\ injectSelector
  /\ UNCHANGED <<targetUrl, settled, wizardWin, promise, settleCalls, page>>
  /\ WizardFrame

ConfirmItems(data) ==
  /\ WizardMode
  /\ step' = "scroll"
  /\ wizardWin' = [wizardWin EXCEPT !.selectionData = data]
  /\ injectScrollStep(wizardWin)
  /\ confirmedOn' = Some(getURL)
  /\ UNCHANGED <<targetUrl, settled, promise, settleCalls, page, scriptVars>>
  /\ UNCHANGED <<mode, now, schedVars, tunnelVars, hlVars, exVars, others, ignored>>

FinishScroll(data) ==
  LET selData == IF wizardWin.selectionData = None THEN EmptySelection
                 ELSE wizardWin.selectionData[1]
      scrollSelector == IF data = None THEN None ELSE data[1].scrollSelector
      scrollCount == IF data = None \/ Falsy(data[1].scrollCount) THEN JsNum(0)
                     ELSE data[1].scrollCount
      profileData == buildProfileData(selData.items, selData.feedName, targetUrl, now)
  IN /\ WizardMode
     /\ step' = "done"
     /\ finish(wizardWin,
               Resolved([pageUrl |-> targetUrl,
                         selector |-> selData.selector,
                         feedName |-> IF selData.feedName # << >> THEN selData.feedName
                                      ELSE deriveFeedName(targetUrl),
                         scrollSelector |-> scrollSelector,
                         scrollCount |-> scrollCount,
                         profileData |-> profileData]))
     /\ UNCHANGED <<targetUrl, page, toolbar, scriptVars>>
     /\ WizardFrame

\* 'cancel' that, in the scroll step, closes the window without settling
CancelQuietInScroll ==
  /\ WizardMode
  /\ IF step = "scroll" /\ ~settled
     THEN /\ settled' = TRUE
          /\ wizardWin' = Destroy(wizardWin)
          /\ UNCHANGED <<promise, settleCalls>>
     ELSE finish(wizardWin, Rejected("Custom feed wizard was cancelled"))
  /\ UNCHANGED <<step, targetUrl, page, toolbar, scriptVars>>
  /\ WizardFrame

Cancel ==
  /\ WizardMode
  /\ finish(wizardWin, Rejected("Custom feed wizard was cancelled"))
  /\ UNCHANGED <<step, targetUrl, page, toolbar, scriptVars>>
  /\ WizardFrame

\* the user closes the wizard window
CloseWindow ==
  /\ WizardMode
  /\ ~wizardWin.destroyed
  /\ wizardWin' = Destroy(wizardWin)
  /\ UNCHANGED <<step, targetUrl, settled, promise, settleCalls, selVars>>
  /\ WizardFrame

\* wizardWin.on('closed', ...)
Closed ==
  /\ WizardMode
  /\ wizardWin.closedPending
  /\ finish([wizardWin EXCEPT !.closedPending = FALSE],
            Rejected("Custom feed wizard was closed"))
  /\ UNCHANGED <<step, targetUrl, selVars>>
  /\ WizardFrame

\* The messages below reach the handler whatever the page shows: the wizard
\* mode draws their data from small sets, the select mode takes them from the
\* page's scripts.
WizardLoads ==
  /\ mode = "wizard"
  /\ \E currentUrl \in PageUrls : DidFinishLoad(currentUrl)
  /\ UNCHANGED sent

WizardLoadFails ==
  /\ mode = "wizard"
  /\ DidFailLoad
  /\ UNCHANGED sent

WizardLogsIn ==
  /\ mode = "wizard"
  /\ LoginDone
  /\ UNCHANGED sent

WizardNavigates ==
  /\ mode = "wizard"
  /\ \E data \in NavigateData : NavigateTo(data)
  /\ UNCHANGED sent

WizardStartsSelector ==
  /\ mode = "wizard"
  /\ StartSelector
  /\ UNCHANGED sent

WizardConfirms ==
  /\ mode = "wizard"
  /\ \E data \in ConfirmData : ConfirmItems(data)
  /\ UNCHANGED sent

WizardFinishes ==
  /\ mode = "wizard"
  /\ \E data \in ScrollData : FinishScroll(data)
  /\ UNCHANGED sent

WizardCancels ==
  /\ mode = "wizard"
  /\ Cancel
  /\ UNCHANGED sent

\* the channel the wizard's preload sends on, and the cases of the switch
WizardChannel == "custom-wizard-msg"

EventNames ==
  {"login-done", "navigate-to", "start-selector", "confirm-items", "finish-scroll", "cancel"}

Message(channel, name) == [channel |-> channel, name |-> name]

\* messages no case of the handler is for
OtherMessages == {Message("custom-wizard-cmd", "cancel"), Message(WizardChannel, "close")}

\* a handler whose switch treats an unknown name as 'cancel'
IgnoredCancels(msg) ==
  /\ mode = "wizard"
  /\ msg.channel # WizardChannel \/ msg.name \notin EventNames
  /\ ignored' = Some(msg)
  /\ IF msg.channel # WizardChannel THEN UNCHANGED <<settled, wizardWin, promise, settleCalls>>
     ELSE finish(wizardWin, Rejected("Custom feed wizard was cancelled"))
  /\ UNCHANGED <<mode, now, schedVars, tunnelVars, hlVars, exVars, others, step, targetUrl, selVars,
                 confirmedOn>>

\* if (channel !== 'custom-wizard-msg') return; and a switch without default
Ignored(msg) ==
  /\ mode = "wizard"
  /\ msg.channel # WizardChannel \/ msg.name \notin EventNames
  /\ ignored' = Some(msg)
  /\ UNCHANGED <<settled, wizardWin, promise, settleCalls>>
  /\ UNCHANGED <<mode, now, schedVars, tunnelVars, hlVars, exVars, others, step, targetUrl, selVars,
                 confirmedOn>>

WizardIgnores == \E msg \in OtherMessages : Ignored(msg)

\* how many sessions later calls open
MaxOthers == 1

\* startCustomWizard called again: a window and a session of its own, whatever
\* the state of the sessions before it
StartAgain ==
  /\ mode = "wizard"
  /\ Len(others) < MaxOthers
  /\ others' = Append(others, [settled |-> FALSE, destroyed |-> FALSE])
  /\ UNCHANGED <<mode, now, schedVars, tunnelVars, hlVars, exVars, step, targetUrl, settled, wizardWin,
                 promise, settleCalls, ignored, confirmedOn, selVars>>

\* a later session settles by its own finish
OtherSettles(k) ==
  /\ mode = "wizard"
  /\ k \in 1..Len(others)
  /\ ~others[k].settled
  /\ others' = [others EXCEPT ![k] = [settled |-> TRUE, destroyed |-> TRUE]]
  /\ UNCHANGED <<mode, now, schedVars, tunnelVars, hlVars, exVars, step, targetUrl, settled, wizardWin,
                 promise, settleCalls, ignored, confirmedOn, selVars>>

OthersSettle == \E k \in 1..Len(others) : OtherSettles(k)

-----------------------------------------------------------------------------
(* The selector step in the page: documents, clicks and the bar's buttons  *)

\* the wizard's own elements: the bar injectSelector appends with what it
\* holds, and the hover overlay after it; bar is the bar's position
Toolbar(bar) ==
  << Box("DIV", "__unsocial_toolbar", << >>, body),
     Box("SPAN", "__us_instructions", << >>, bar),
     Box("B", "", << >>, bar + 1),
     Box("SPAN", "__us_count", << >>, bar),
     Box("B", "__us_num", << >>, bar + 3),
     Box("INPUT", "__us_name_input", << >>, bar),
     Box("BUTTON", "__us_btn_confirm", << >>, bar),
     Box("BUTTON", "__us_btn_reset", << >>, bar),
     Box("BUTTON", "__us_btn_cancel", << >>, bar),
     Box("DIV", "__unsocial_hover", << >>, body) >>

\* where the site's own elements start: after html, body and the spacer
\* injectToolbar prepends to the body
FirstOwn == 4

\* a document: html, body, the spacer, the site's elements, the wizard's bar
Document(content) ==
  << Box("HTML", "", << >>, 0), Box("BODY", "", << >>, documentElement),
     Box("DIV", "__unsocial_spacer", << >>, body) >>
  \o content \o Toolbar(FirstOwn + Len(content))

WithText(node, text) == [node EXCEPT !.text = text]

\* div#feed holding count cards; each card is div.card with a hover class and
\* holds a heading, an image, a link and a time element
CardKinds == << "DIV", "H2", "IMG", "A", "TIME" >>

CardParts == Len(CardKinds)

CardsContent(count) ==
  << Box("DIV", "feed", << >>, body) >> \o
  [j \in 1..(CardParts * count) |->
     LET part == (j - 1) % CardParts
         card == FirstOwn + j - part
     IN CASE part = 0 ->
               Box("DIV", "", << Plain("card"), Class("hover:", "shadow") >>, FirstOwn)
          [] part = 1 -> WithText(Box("H2", "", << >>, card), Headline)
          [] part = 2 ->
               Node("IMG", "", << >>, NoAttrs, card, None,
                    Some(Url("https", << "cdn", "example", "com" >>, "/a.png")), None, << >>)
          [] part = 3 ->
               Node("A", "", << >>, NoAttrs, card, Some(ExampleNews), None, None,
                    << "m", "o", "r", "e" >>)
          [] OTHER ->
               Node("TIME", "", << >>, NoAttrs, card, None, None, Some(NewYear), << >>)]

\* count li.item in a list at position list
Items(list, count) ==
  [j \in 1..count |-> WithText(Box("LI", "", << Plain("item") >>, list), << "A" >>)]

\* one list without id or class
ListContent(count) == << Box("UL", "", << >>, body) >> \o Items(FirstOwn, count)

\* two such lists side by side in a section
TwoListsContent(count) ==
  << Box("SECTION", "", << >>, body), Box("UL", "", << >>, FirstOwn) >>
  \o Items(FirstOwn + 1, count)
  \o << Box("UL", "", << >>, FirstOwn) >>
  \o Items(FirstOwn + 2 + count, count)

\* three cards with an image and a link each; the first has an id and holds two
\* paragraphs as well
FeaturedContent ==
  LET image(card) == Node("IMG", "", << >>, NoAttrs, card, None,
                          Some(Url("https", << "cdn", "example", "com" >>, "/a.png")),
                          None, << >>)
      link(card) == Node("A", "", << >>, NoAttrs, card, Some(ExampleNews), None, None,
                         << "m", "o", "r", "e" >>)
  IN << Box("DIV", "feed", << >>, body),
        Box("DIV", "top", << Plain("card") >>, FirstOwn),
        WithText(Box("P", "", << >>, FirstOwn + 1), << "A" >>),
        WithText(Box("P", "", << >>, FirstOwn + 1), << "B" >>),
        image(FirstOwn + 1), link(FirstOwn + 1),
        Box("DIV", "", << Plain("card") >>, FirstOwn),
        image(FirstOwn + 6), link(FirstOwn + 6),
        Box("DIV", "", << Plain("card") >>, FirstOwn),
        image(FirstOwn + 9), link(FirstOwn + 9) >>

\* three div[data-testid="post"] in a div without id or class
TestIdContent ==
  << Box("DIV", "", << >>, body) >> \o
  [j \in 1..3 |->
     Node("DIV", "", << >>, [NoAttrs EXCEPT !["data-testid"] = "post"], FirstOwn,
          None, None, None, << "A" >>)]

\* ul#menu holding three li whose only class is a hover variant
VariantContent ==
  << Box("UL", "menu", << >>, body) >> \o
  [j \in 1..3 |-> WithText(Box("LI", "", << Class("hover:", "bg") >>, FirstOwn), << "A" >>)]

\* how far below its card the deepest element of the nested document lies
Nesting == 18

\* two cards; the first holds a chain of spans, each inside the one before
NestedContent ==
  << Box("DIV", "feed", << >>, body),
     Box("DIV", "", << Plain("card") >>, FirstOwn),
     Box("DIV", "", << Plain("card") >>, FirstOwn) >> \o
  [j \in 1..Nesting |->
     Box("SPAN", "", << >>, IF j = 1 THEN FirstOwn + 1 ELSE FirstOwn + 1 + j)]

\* one paragraph in a div: nothing repeats
LoneContent ==
  << Box("DIV", "", << >>, body), WithText(Box("P", "", << >>, FirstOwn), << "A" >>) >>

\* the documents tried, by name
CardsPage == Document(CardsContent(20))

PairPage == Document(ListContent(MinMatches))

FullPage == Document(ListContent(MaxMatches))

TwoListsPage == Document(TwoListsContent(MaxMatches \div 2 + 1))

FeaturedPage == Document(FeaturedContent)

TestIdPage == Document(TestIdContent)

VariantPage == Document(VariantContent)

NestedPage == Document(NestedContent)

LonePage == Document(LoneContent)

\* a list that has an id, of three items of one class, text only
MenuContent == << Box("UL", "nav", << >>, body) >> \o Items(FirstOwn, 3)

MenuPage == Document(MenuContent)

\* two posts in div#posts; each holds a share button made as a javascript:
\* link and, after it, a link to the article
ShareContent ==
  LET share(post) == Node("A", "", << >>, NoAttrs, post,
                          Some(Url("javascript", << >>, "void(0)")), None, None,
                          << "s", "h", "a", "r", "e" >>)
      more(post) == Node("A", "", << >>, NoAttrs, post, Some(ExampleNews), None, None,
                         << "m", "o", "r", "e" >>)
  IN << Box("DIV", "posts", << >>, body),
        Box("DIV", "", << Plain("post") >>, FirstOwn),
        share(FirstOwn + 1), more(FirstOwn + 1),
        Box("DIV", "", << Plain("post") >>, FirstOwn),
        share(FirstOwn + 4), more(FirstOwn + 4) >>

SharePage == Document(ShareContent)

PageNames ==
  {"cards", "pair", "full", "twolists", "featured", "testid", "variant", "nested", "lone",
   "menu", "share"}

Dom(name) ==
  CASE name = "cards" -> CardsPage
    [] name = "pair" -> PairPage
    [] name = "full" -> FullPage
    [] name = "twolists" -> TwoListsPage
    [] name = "featured" -> FeaturedPage
    [] name = "testid" -> TestIdPage
    [] name = "variant" -> VariantPage
    [] name = "nested" -> NestedPage
    [] name = "menu" -> MenuPage
    [] name = "share" -> SharePage
    [] OTHER -> LonePage

\* where the user clicks on each document
ClickTargets(name) ==
  LET last == Len(Dom(name)) - Len(Toolbar(0))
  IN CASE name = "cards" -> {FirstOwn, FirstOwn + 1, FirstOwn + 2, FirstOwn + CardParts, last}
       [] name = "pair" -> {FirstOwn, FirstOwn + 1}
       [] name = "full" -> {FirstOwn + 1, last}
       [] name = "twolists" -> {FirstOwn + 2}
       [] name = "featured" -> {FirstOwn + 1, FirstOwn + 2, FirstOwn + 4, FirstOwn + 6}
       [] name = "testid" -> {FirstOwn + 1}
       [] name = "variant" -> {FirstOwn + 1}
       [] name = "nested" -> {FirstOwn + 2, last - 2, last - 1, last}
       [] name = "menu" -> {FirstOwn + 1}
       [] name = "share" -> {FirstOwn + 1}
       [] OTHER -> {documentElement, body, body + 1, FirstOwn + 1, Len(Dom(name))}

\* what the user types into the name input
TypedNames == {<< >>, << " ", "N", "e", "w", "s", " " >>}

\* target.closest('#__unsocial_toolbar') || target.id === '__unsocial_hover'
\*   || target.id === '__unsocial_spacer'
RECURSIVE InToolbar(_, _)
InToolbar(dom, el) ==
  IF el = 0 THEN FALSE
  ELSE IF dom[el].id = "__unsocial_toolbar" THEN TRUE
  ELSE InToolbar(dom, dom[el].parent)

OwnUi(dom, el) ==
  InToolbar(dom, el) \/ dom[el].id \in {"__unsocial_hover", "__unsocial_spacer"}

\* el.innerText: the texts el and its descendants hold, in document order
RECURSIVE TextFrom(_, _, _)
TextFrom(dom, el, n) ==
  IF n > Len(dom) \/ ~Contains(dom, el, n) THEN << >>
  ELSE (IF dom[n].text = << >> THEN << >> ELSE << " " >> \o dom[n].text)
       \o TextFrom(dom, el, n + 1)

innerText(dom, el) == TextFrom(dom, el, el)

\* what EXTRACT_ITEM_JS finds in el: each querySelector is the first match
\* among the descendants
ElementOf(dom, el) ==
  LET inside == Descendants(dom, el)
      first(tags) == First({d \in inside : dom[d].tagName \in tags})
      aTag == First({d \in inside : dom[d].tagName = "A" /\ dom[d].href # None})
      heading == first({"H1", "H2", "H3", "H4", "H5", "H6"})
      bold == first({"B", "STRONG"})
      img == First({d \in inside : dom[d].tagName = "IMG" /\ dom[d].src # None})
      timeEl == First({d \in inside : dom[d].tagName = "TIME" /\ dom[d].datetime # None})
  IN Element(IF aTag = 0 THEN None ELSE Some(Anchor(dom[aTag].href[1], innerText(dom, aTag))),
             IF heading = 0 THEN None ELSE Some(innerText(dom, heading)),
             IF bold = 0 THEN None ELSE Some(innerText(dom, bold)),
             IF img = 0 THEN None ELSE dom[img].src,
             IF timeEl = 0 THEN None ELSE dom[timeEl].datetime,
             None,   \* every time element of the documents has a datetime
             innerText(dom, el))

\* Array.from(document.querySelectorAll(sel)): the matches in document order
Matches(dom, sel) ==
  LET Hit(n) == n \in querySelectorAll(dom, sel)
  IN SelectSeq([n \in 1..Len(dom) |-> n], Hit)

\* the selector step as the user reaches it: the site's page is loaded and
\* the wizard shows its login bar
SelectInit ==
  /\ mode = "select"
  /\ now = StartTime
  /\ step = "login"
  /\ targetUrl = ExampleNews
  /\ settled = FALSE
  /\ wizardWin = [destroyed |-> FALSE, closedPending |-> FALSE, selectionData |-> None]
  /\ promise = Pending
  /\ settleCalls = 0
  /\ others = << >>
  /\ ignored = None
  /\ confirmedOn = None
  /\ page \in PageNames
  /\ toolbar = "login"
  /\ NoScript
  /\ sent = << >>
  /\ HeadlessIdle
  /\ ExtractIdle
  /\ SchedIdle
  /\ TunnelIdle

\* #__us_btn_continue of the login bar
ContinueButton ==
  /\ mode = "select"
  /\ step = "login"
  /\ ~wizardWin.destroyed
  /\ LoginDone
  /\ UNCHANGED sent

\* #__us_btn_select of the navigate bar
SelectButton ==
  /\ mode = "select"
  /\ step = "navigate"
  /\ ~wizardWin.destroyed
  /\ StartSelector
  /\ UNCHANGED sent

NoRepeat ==
  "Could not find repeating items from this element. Try clicking on a different part of the item (e.g. the title or image)."

\* the three tries of onClick: the target, its parent, the parent's parent
Inferred(dom, el) ==
  LET parent == dom[el].parent
      first == findRepeatingContainer(dom, el)
      second == IF first = None /\ parent # 0 THEN findRepeatingContainer(dom, parent)
                ELSE first
  IN IF second = None /\ parent # 0 /\ dom[parent].parent # 0
     THEN findRepeatingContainer(dom, dom[parent].parent)
     ELSE second

\* The documents do not change while the script runs, so what a click infers
\* and what the extraction script finds in an element are tables of the
\* document.
InferredAt ==
  [name \in PageNames |-> [el \in ClickTargets(name) |-> Inferred(Dom(name), el)]]

ElementAt ==
  [name \in PageNames |-> [el \in 1..Len(Dom(name)) |-> ElementOf(Dom(name), el)]]

\* onClick where a failed inference cancels the session
onClickGivesUp(el) ==
  LET dom == Dom(page)
      result == InferredAt[page][el]
  IN /\ target' = el
     /\ IF result = None
        THEN /\ alert' = NoRepeat
             /\ selectorMode' = FALSE
             /\ sent' = Append(sent, [name |-> "cancel", data |-> None])
             /\ UNCHANGED <<selectedSelector, selectedEls>>
        ELSE /\ selectorMode' = FALSE
             /\ selectedSelector' = Some(result[1].selector)
             /\ selectedEls' = Matches(dom, result[1].selector)
             /\ UNCHANGED <<alert, sent>>

\* function onClick(e), past its two early returns
onClick(el) ==
  LET dom == Dom(page)
      result == InferredAt[page][el]
  IN /\ target' = el
     /\ IF result = None
        THEN /\ alert' = NoRepeat
             /\ UNCHANGED <<selectorMode, selectedSelector, selectedEls, sent>>
        ELSE /\ selectorMode' = FALSE
             /\ selectedSelector' = Some(result[1].selector)
             /\ selectedEls' = Matches(dom, result[1].selector)
             /\ UNCHANGED <<alert, sent>>

SelectFrame ==
  UNCHANGED <<mode, now, schedVars, tunnelVars, hlVars, exVars, step, targetUrl, settled, wizardWin,
              promise, settleCalls, others, ignored, confirmedOn, page, toolbar>>

\* a click the script's listener takes
Click(el) ==
  /\ mode = "select"
  /\ ~wizardWin.destroyed
  /\ listening
  /\ selectorMode
  /\ ~OwnUi(Dom(page), el)
  /\ onClick(el)
  /\ UNCHANGED listening
  /\ SelectFrame

\* #__us_btn_confirm, shown once a selection is made
ConfirmButton(typed) ==
  LET dom == Dom(page)
      items == ExtractItems([n \in 1..Len(selectedEls) |-> ElementAt[page][selectedEls[n]]])
  IN /\ mode = "select"
     /\ ~wizardWin.destroyed
     /\ listening
     /\ ~selectorMode
     /\ listening' = FALSE
     /\ sent' = Append(sent, [name |-> "confirm-items",
                              data |-> Some(Selection(selectedSelector, Some(items),
                                                      TrimText(typed)))])
     /\ UNCHANGED <<selectorMode, selectedSelector, selectedEls, target, alert>>
     /\ SelectFrame

\* #__us_btn_reset, shown once a selection is made
ResetButton ==
  /\ mode = "select"
  /\ ~wizardWin.destroyed
  /\ listening
  /\ ~selectorMode
  /\ selectorMode' = TRUE
  /\ selectedSelector' = None
  /\ selectedEls' = << >>
  /\ target' = 0
  /\ UNCHANGED <<listening, alert, sent>>
  /\ SelectFrame

\* #__us_btn_cancel
CancelButton ==
  /\ mode = "select"
  /\ ~wizardWin.destroyed
  /\ listening
  /\ listening' = FALSE
  /\ sent' = Append(sent, [name |-> "cancel", data |-> None])
  /\ UNCHANGED <<selectorMode, selectedSelector, selectedEls, target, alert>>
  /\ SelectFrame

\* the controller takes the page's next message
Deliver ==
  /\ mode = "select"
  /\ sent # << >>
  /\ sent' = Tail(sent)
  /\ IF Head(sent).name = "confirm-items" THEN ConfirmItems(Head(sent).data) ELSE Cancel

\* the scroll step's button sends 'finish-scroll' and the controller takes it
ScrollStepFinishes ==
  /\ mode = "select"
  /\ step = "scroll"
  /\ ~wizardWin.destroyed
  /\ \E data \in ScrollData : FinishScroll(data)
  /\ UNCHANGED sent

Clicks == \E el \in ClickTargets(page) : Click(el)

Confirms == \E typed \in TypedNames : ConfirmButton(typed)

-----------------------------------------------------------------------------
(* The headless executor: scrapeCustomSiteHeadless *)

\* setTimeout(() => reject(new Error('Timed out loading page')), 30000)
LoadTimeoutMs == 30000 \div 1000

\* await sleep(4000)
SettleMs == 4000 \div 1000

\* await sleep(2000), after each scroll and once more after the last
ScrollDelayMs == 2000 \div 1000

\* seconds by which a timer fires late, and seconds a page script takes
Lateness == {0, 1}

\* seconds a page takes to finish loading
LoadTimes == {1, 7}

\* a selector querySelector accepts
ValidSelector(sel) == sel # "div["

Selectors == {".card", "div["}

ScrollSelectors == {None, Some(".list"), Some("div[")}

ScrollCounts ==
  {JsNum(n) : n \in -1..MaxScrolls}
    \cup {JsNull, JsStr(<< "2" >>), JsStr(<< " ", "2", "p", "x" >>), JsStr(<< "x" >>)}

HeadlessArgs ==
  {[pageUrl |-> ExampleNews, selector |-> sel, feedName |-> << "News" >>,
    scrollSelector |-> scrollSel, scrollCount |-> count] :
     sel \in Selectors, scrollSel \in ScrollSelectors, count \in ScrollCounts}

\* what the selector matches on the page
Pages == {<< >>, << Card(NewYear), RelativeTime >>}

HeadlessInit ==
  /\ mode = "headless"
  /\ now = StartTime
  /\ pc = "loading"
  /\ args \in HeadlessArgs
  /\ hidden = [destroyed |-> FALSE]
  /\ numScrolls = 0
  /\ loopI = 0
  /\ wake = now + LoadTimeoutMs
  /\ scrolls = << >>
  /\ waited = 0
  /\ outcome = Pending
  /\ elements \in Pages
  /\ runs = << >>
  /\ WizardIdle
  /\ SchedIdle
  /\ TunnelIdle

HeadlessFrame == UNCHANGED <<mode, schedVars, tunnelVars, wizVars, exVars>>

\* a finally block that destroys nothing
finallySkipped(win) == win

\* finally { if (!hidden.isDestroyed()) hidden.destroy(); }
finally(win) == IF win.destroyed THEN win ELSE [win EXCEPT !.destroyed = TRUE]

\* the activation returns or throws: the finally block runs, the promise settles
Settle(result) ==
  /\ pc' = "done"
  /\ outcome' = result
  /\ hidden' = finally(hidden)

\* the loop that runs once too often
LoopContinuesInclusive(k, n) == k <= n

\* for (let i = 0; i < numScrolls; i++)
LoopContinues(k, n) == k < n

\* loadPage: 'did-finish-load' before the timeout; then sleep(4000) starts
LoadFinished(d) ==
  /\ pc = "loading"
  /\ now + d < wake
  /\ now' = now + d
  /\ pc' = "settle"
  /\ wake' = now' + SettleMs
  /\ UNCHANGED <<args, hidden, numScrolls, loopI, scrolls, waited, outcome>>
  /\ HeadlessFrame

\* loadPage: 'did-fail-load' before the timeout
LoadFailed(d) ==
  /\ pc = "loading"
  /\ now + d < wake
  /\ now' = now + d
  /\ Settle(Rejected("Failed to load page"))
  /\ UNCHANGED <<args, numScrolls, loopI, wake, scrolls, waited>>
  /\ HeadlessFrame

\* loadPage: the 30-second timer fires first
LoadTimedOut(late) ==
  /\ pc = "loading"
  /\ now' = wake + late
  /\ Settle(Rejected("Timed out loading page"))
  /\ UNCHANGED <<args, numScrolls, loopI, wake, scrolls, waited>>
  /\ HeadlessFrame

\* sleep(4000) is over: numScrolls is computed and the loop is entered or skipped
SettleOver(late) ==
  LET n == NumScrolls(args.scrollCount)
  IN /\ pc = "settle"
     /\ now' = wake + late
     /\ numScrolls' = n
     /\ loopI' = 0
     /\ pc' = IF n > 0 /\ LoopContinues(0, n) THEN "scroll" ELSE
              IF n > 0 THEN "finalWait" ELSE "extract"
     /\ wake' = IF n > 0 /\ ~LoopContinues(0, n) THEN now' + ScrollDelayMs ELSE wake
     /\ waited' = IF n > 0 /\ ~LoopContinues(0, n) THEN ScrollDelayMs ELSE 0
     /\ UNCHANGED <<args, hidden, scrolls, outcome>>
     /\ HeadlessFrame

\* the scroll script runs in the page; then sleep(2000) starts
Scroll(took) ==
  /\ pc = "scroll"
  /\ now' = now + took
  /\ IF args.scrollSelector # None /\ ~ValidSelector(args.scrollSelector[1])
     THEN \* document.querySelector throws, executeJavaScript rejects
          /\ Settle(Rejected("Script failed to execute"))
          /\ UNCHANGED <<wake, scrolls, waited>>
     ELSE /\ scrolls' = Append(scrolls, [began |-> now, ended |-> now'])
          /\ pc' = "scrollWait"
          /\ wake' = now' + ScrollDelayMs
          /\ waited' = waited + ScrollDelayMs
          /\ UNCHANGED <<hidden, outcome>>
  /\ UNCHANGED <<args, numScrolls, loopI>>
  /\ HeadlessFrame

\* sleep(2000) after a scroll is over: i++, and the loop goes on or the extra
\* sleep(2000) starts
ScrollWaitOver(late) ==
  /\ pc = "scrollWait"
  /\ now' = wake + late
  /\ loopI' = loopI + 1
  /\ IF LoopContinues(loopI + 1, numScrolls)
     THEN pc' = "scroll" /\ UNCHANGED <<wake, waited>>
     ELSE /\ pc' = "finalWait"
          /\ wake' = now' + ScrollDelayMs
          /\ waited' = waited + ScrollDelayMs
  /\ UNCHANGED <<args, hidden, numScrolls, scrolls, outcome>>
  /\ HeadlessFrame

\* the extra sleep(2000) is over
FinalWaitOver(late) ==
  /\ pc = "finalWait"
  /\ now' = wake + late
  /\ pc' = "extract"
  /\ UNCHANGED <<args, hidden, numScrolls, loopI, wake, scrolls, waited, outcome>>
  /\ HeadlessFrame

\* the extraction script runs in the page and buildProfileData normalises
Extract(took) ==
  /\ pc = "extract"
  /\ now' = now + took
  /\ IF ~ValidSelector(args.selector)
     THEN \* document.querySelectorAll throws, executeJavaScript rejects
          Settle(Rejected("Script failed to execute"))
     ELSE Settle(Resolved(buildProfileData(Some(ExtractItems(elements)), args.feedName,
                                           args.pageUrl, now')))
  /\ UNCHANGED <<args, numScrolls, loopI, wake, scrolls, waited>>
  /\ HeadlessFrame

PageLoads == \E d \in LoadTimes : LoadFinished(d)

PageFails == \E d \in LoadTimes : LoadFailed(d)

PageTimesOut == \E late \in Lateness : LoadTimedOut(late)

PageSettles == \E late \in Lateness : SettleOver(late)

Scrolls == \E took \in Lateness : Scroll(took)

ScrollWaited == \E late \in Lateness : ScrollWaitOver(late)

FinalWaited == \E late \in Lateness : FinalWaitOver(late)

Extracts == \E took \in Lateness : Extract(took)

-----------------------------------------------------------------------------
(* Extraction and normalisation, run after run over one element set *)

\* elements matched by the selector
MaxItems == 2

\* runs over the same elements
MaxRuns == 2

\* seconds between two runs
RunGaps == {0, 3600}

RECURSIVE SeqsUpTo(_, _)
SeqsUpTo(S, n) ==
  IF n = 0 THEN {<< >>}
  ELSE LET shorter == SeqsUpTo(S, n - 1)
       IN shorter \cup {Append(sq, x) : sq \in shorter, x \in S}

ExtractInit ==
  /\ mode = "extract"
  /\ now = StartTime
  /\ elements \in SeqsUpTo(Elements, MaxItems)
  /\ runs = << >>
  /\ WizardIdle
  /\ HeadlessIdle
  /\ SchedIdle
  /\ TunnelIdle

\* one run: the selector's elements through EXTRACT_ITEM_JS, then buildProfileData
Run(gap) ==
  /\ mode = "extract"
  /\ Len(runs) < MaxRuns
  /\ now' = now + gap
  /\ runs' = Append(runs,
                    [at |-> now',
                     profileData |-> buildProfileData(Some(ExtractItems(elements)), << >>,
                                                      ExampleNews, now')])
  /\ UNCHANGED <<mode, elements, schedVars, tunnelVars, wizVars, hlVars>>

Runs == \E gap \in RunGaps : Run(gap)

-----------------------------------------------------------------------------
(* The custom-site scraper: a wizard session, a headless scrape, or runs of *)
(* extraction and normalisation                                             *)

CustomInit == WizardInit \/ SelectInit \/ HeadlessInit \/ ExtractInit

CustomNext ==
  \/ WizardLoads
  \/ WizardLoadFails
  \/ WizardLogsIn
  \/ WizardNavigates
  \/ WizardStartsSelector
  \/ WizardConfirms
  \/ WizardFinishes
  \/ WizardCancels
  \/ WizardIgnores
  \/ StartAgain
  \/ OthersSettle
  \/ CloseWindow
  \/ Closed
  \/ ContinueButton
  \/ SelectButton
  \/ Clicks
  \/ Confirms
  \/ ResetButton
  \/ CancelButton
  \/ Deliver
  \/ ScrollStepFinishes
  \/ PageLoads
  \/ PageFails
  \/ PageTimesOut
  \/ PageSettles
  \/ Scrolls
  \/ ScrollWaited
  \/ FinalWaited
  \/ Extracts
  \/ Runs

SpecCustom == CustomInit /\ [][CustomNext]_vars

-----------------------------------------------------------------------------
(* The Cloudflare tunnel (tunnel.js) *)

\* calls of startTunnel and stopTunnel a behaviour explores
MaxTunnelCalls == 4

\* A process spawned is "alive", "failed" (it could not be started and its
\* 'error' event is due), "exited" (it is gone and its 'close' event is due) or
\* "gone" (its last event was delivered); signalled is set once SIGTERM was
\* sent to it.
Proc(state) == [state |-> state, signalled |-> FALSE]

\* what a line of a tunnel process's output can hold
OutputLines == {"Registered tunnel connection", "ERR failed to connect", "INF"}

TunnelInit ==
  /\ mode = "tunnel"
  /\ now = StartTime
  /\ win32 \in BOOLEAN
  /\ tunnelProcess = None
  /\ tunnelStatus = "stopped"
  /\ spawnTimers = 0
  /\ procs = << >>
  /\ calls = 0
  /\ stopped = FALSE
  /\ SchedIdle
  /\ CustomIdle

TunnelFrame == UNCHANGED <<mode, now, schedVars, customVars, win32>>

\* startTunnel(store): nothing when a process handle is held; else status
\* 'starting' and the spawn two seconds later
startTunnel ==
  /\ mode = "tunnel"
  /\ calls < MaxTunnelCalls
  /\ calls' = calls + 1
  /\ stopped' = FALSE
  /\ IF tunnelProcess # None
     THEN UNCHANGED <<tunnelStatus, spawnTimers>>
     ELSE /\ tunnelStatus' = "starting"
          /\ spawnTimers' = spawnTimers + 1
  /\ UNCHANGED <<tunnelProcess, procs>>
  /\ TunnelFrame

\* the setTimeout callback of startTunnel: if (tunnelProcess) return; else
\* spawn.  started tells whether the executable could be started.
Spawn(started) ==
  /\ mode = "tunnel"
  /\ spawnTimers > 0
  /\ spawnTimers' = spawnTimers - 1
  /\ IF tunnelProcess # None
     THEN UNCHANGED <<tunnelProcess, procs>>
     ELSE /\ procs' = Append(procs, Proc(IF started THEN "alive" ELSE "failed"))
          /\ tunnelProcess' = Some(Len(procs) + 1)
  /\ UNCHANGED <<tunnelStatus, calls, stopped>>
  /\ TunnelFrame

\* stdout/stderr 'data' of process pid
Output(pid, line) ==
  /\ mode = "tunnel"
  /\ pid \in 1..Len(procs)
  /\ procs[pid].state = "alive"
  /\ tunnelStatus' =
       IF line = "Registered tunnel connection" THEN "running"
       ELSE IF line = "ERR failed to connect" /\ tunnelStatus = "starting" THEN "error"
       ELSE tunnelStatus
  /\ UNCHANGED <<tunnelProcess, spawnTimers, procs, calls, stopped>>
  /\ TunnelFrame

\* process pid ends, by itself or after a signal
Exit(pid) ==
  /\ mode = "tunnel"
  /\ pid \in 1..Len(procs)
  /\ procs[pid].state = "alive"
  /\ procs' = [procs EXCEPT ![pid].state = "exited"]
  /\ UNCHANGED <<tunnelProcess, tunnelStatus, spawnTimers, calls, stopped>>
  /\ TunnelFrame

\* tunnelProcess.on('close', ...) of process pid: tunnelProcess = null;
\* setStatus('stopped')
OnClose(pid) ==
  /\ mode = "tunnel"
  /\ pid \in 1..Len(procs)
  /\ procs[pid].state = "exited"
  /\ procs' = [procs EXCEPT ![pid].state = "gone"]
  /\ tunnelProcess' = None
  /\ tunnelStatus' = "stopped"
  /\ UNCHANGED <<spawnTimers, calls, stopped>>
  /\ TunnelFrame

\* tunnelProcess.on('error', ...) of process pid: tunnelProcess = null;
\* setStatus('error')
OnError(pid) ==
  /\ mode = "tunnel"
  /\ pid \in 1..Len(procs)
  /\ procs[pid].state = "failed"
  /\ procs' = [procs EXCEPT ![pid].state = "gone"]
  /\ tunnelProcess' = None
  /\ tunnelStatus' = "error"
  /\ UNCHANGED <<spawnTimers, calls, stopped>>
  /\ TunnelFrame

\* taskkill /F ends the process at once; kill('SIGTERM') asks it to end
Killed(ps, pid) ==
  IF ps[pid].state # "alive" THEN ps
  ELSE IF win32 THEN [ps EXCEPT ![pid].state = "exited"]
  ELSE [ps EXCEPT ![pid].signalled = TRUE]

\* killOrphanedCloudflared(): on win32, taskkill /F /IM cloudflared.exe
killOrphanedCloudflared(ps) ==
  IF ~win32 THEN ps
  ELSE [pid \in 1..Len(ps) |->
          IF ps[pid].state = "alive" THEN [ps[pid] EXCEPT !.state = "exited"] ELSE ps[pid]]

\* stopTunnel()
stopTunnel ==
  /\ mode = "tunnel"
  /\ calls < MaxTunnelCalls
  /\ calls' = calls + 1
  /\ stopped' = TRUE
  /\ procs' = killOrphanedCloudflared(IF tunnelProcess = None THEN procs
                                      ELSE Killed(procs, tunnelProcess[1]))
  /\ tunnelProcess' = None
  /\ tunnelStatus' = "stopped"
  /\ UNCHANGED spawnTimers
  /\ TunnelFrame

SpawnDue == \E started \in BOOLEAN : Spawn(started)

Outputs == \E pid \in 1..Len(procs), line \in OutputLines : Output(pid, line)

Exits == \E pid \in 1..Len(procs) : Exit(pid)

Closes == \E pid \in 1..Len(procs) : OnClose(pid)

Errors == \E pid \in 1..Len(procs) : OnError(pid)

TunnelNext ==
  \/ startTunnel
  \/ SpawnDue
  \/ Outputs
  \/ Exits
  \/ Closes
  \/ Errors
  \/ stopTunnel

SpecTunnel == TunnelInit /\ [][TunnelNext]_vars

-----------------------------------------------------------------------------
(* Claims about the scheduler *)

\* the same registration: (username, platform)
SameFeed(f, g) == f.username = g.username /\ PlatformOf(f) = PlatformOf(g)

\* C2: at most one scheduled scrape is in flight, isRefreshing is set while it
\* is, and no step dispatches a scrape while isRefreshing is set.
OneScheduledScrape ==
  /\ [](Cardinality(schedScrapes) <= 1)
  /\ [](schedScrapes # {} => isRefreshing)
  /\ [][isRefreshing => schedScrapes' \subseteq schedScrapes]_vars

\* C2 witness: a second scheduled scrape is in flight after the first settled
SecondScrapeInFlight ==
  \E s \in schedScrapes : s.at > StartTime /\ events >= 2 /\ isRefreshing
    /\ \E i \in 1..Len(feeds) : feeds[i].lastChecked # None /\ TimeOf(feeds[i]) > StartTime

\* a scheduled scrape s fails in this step
FailsNow(s) ==
  /\ s \in schedScrapes
  /\ s \notin schedScrapes'
  /\ Len(notificationLog') > Len(notificationLog)

\* C3 (as claimed): when a scheduled scrape fails, the dispatched feed, if still
\* registered, gets lastChecked = its previous value + 30 min and keeps its
\* postCount and latestPostDate.
PenaltyOnDispatchedFeed ==
  [][\A s \in schedScrapes :
       (FailsNow(s) /\ FindIndex(feeds, s.feed.username, s.platform) # 0) =>
         LET i == FindIndex(feeds, s.feed.username, s.platform)
             j == FindIndex(feeds', s.feed.username, s.platform)
         IN /\ j # 0
            /\ feeds'[j].lastChecked = Some(TimeOf(feeds[i]) + PenaltyMs)
            /\ feeds'[j].postCount = feeds[i].postCount
            /\ feeds'[j].latestPostDate = feeds[i].latestPostDate]_vars

\* C4: a timer armed while some feed's lastChecked was more than 6 h old, or
\* absent, is due within 5 seconds of being armed.
StaleFiresWithinFiveSeconds ==
  \A t \in timers : t.stale => (t.due - t.armedAt <= 5 /\ t.delay <= 5)

\* C4 witness: after a refresh, a timer is pending that was armed while a feed
\* that has a lastChecked was more than 6 h old
StaleTimerArmed ==
  \E t \in timers :
    /\ t.stale
    /\ t.armedAt > StartTime
    /\ \E i \in 1..Len(feeds) :
         feeds[i].lastChecked # None /\ t.armedAt - TimeOf(feeds[i]) > MAX_STALE_MS

\* C5 (as claimed): while no feed started unchecked and no scrape has failed,
\* a feed whose last refresh is more than 6 h old is being scraped by the
\* scheduler, and was dispatched before it passed the 6-h mark.
StalenessCeiling ==
  clean =>
    \A i \in 1..Len(feeds) :
      (now - TimeOf(feeds[i]) > MAX_STALE_MS) =>
        \E s \in schedScrapes :
          SameFeed(s.feed, feeds[i]) /\ s.at - TimeOf(feeds[i]) <= MAX_STALE_MS

Registered(u) == \E i \in 1..Len(feeds) : feeds[i].username = u

InFlight(u) == \E s \in schedScrapes : s.feed.username = u

IndexOf(u) == CHOOSE i \in 1..Len(feeds) : feeds[i].username = u

\* feeds[i] comes before feeds[j] in the scheduler's stable sort by lastChecked
Before(i, j) ==
  \/ TimeOf(feeds[i]) < TimeOf(feeds[j])
  \/ TimeOf(feeds[i]) = TimeOf(feeds[j]) /\ i < j

\* an upper bound on the dispatches that come before the next dispatch of u:
\* one for each other working feed that sorts before u, and for UserA, while it
\* sorts before u, one for each 30-min penalty that fits into its lead, plus one
Rank(u) ==
  LET a == IndexOf(UserA)
      e == IndexOf(u)
  IN Cardinality({i \in 1..Len(feeds) : i \notin {a, e} /\ Before(i, e)})
     + (IF Before(a, e)
        THEN (TimeOf(feeds[e]) - TimeOf(feeds[a])) \div PenaltyMs + 1
        ELSE 0)

\* C6: with UserA failing on every attempt, every other registered feed u is
\* dispatched again and again: the number of dispatches that can still come
\* before u's next one is finite, every scheduled scrape of another feed that
\* settles (UserA's failures included) lowers it, and when it is zero u is the
\* feed the next timer fire dispatches.
NoStarvation ==
  /\ [](\A u \in {UserB, UserC} : Registered(u) =>
          /\ Rank(u) >= 0
          /\ (Rank(u) = 0 => Oldest(feeds).username = u)
          /\ \A s \in schedScrapes : s.feed.username # u => Rank(u) > 0)
  /\ [][\A u \in {UserB, UserC} : \A s \in schedScrapes :
          (Registered(u) /\ s \notin schedScrapes' /\ s.feed.username # u)
            => Rank(u)' < Rank(u)]_vars

\* C6 witness: after UserA has failed twice in a row, UserB is dispatched
DispatchedAfterFailures ==
  /\ mode = "starve"
  /\ Len(notificationLog) >= 2
  /\ InFlight(UserB)
  /\ \A i \in 1..Len(feeds) : feeds[i].username = UserB => feeds[i].lastChecked = Late

-----------------------------------------------------------------------------
(* Claims about the custom-site scraper *)

\* C1: the promise of startCustomWizard is settled at most once: resolve or
\* reject is called at most once, and once the session is settled no event
\* (a further finish-scroll or cancel, the 'closed' callback) changes the
\* promise, calls resolve or reject again, or reopens the window.
SettledAtMostOnce ==
  /\ [](settleCalls <= 1)
  /\ [](settled <=> promise.state # "pending")
  /\ [][settled => /\ promise' = promise
                   /\ settled'
                   /\ settleCalls' = settleCalls
                   /\ wizardWin'.destroyed]_vars

\* C1 witness: the session was cancelled or closed, the 'closed' callback has
\* been delivered, and a finish-scroll came after that
LateFinishScroll ==
  /\ mode = "wizard"
  /\ promise.state = "rejected"
  /\ step = "done"
  /\ wizardWin.destroyed
  /\ ~wizardWin.closedPending

\* extraction is about to run, or has run and the scrape returned
AtExtraction == pc = "extract" \/ (pc = "done" /\ outcome.state = "resolved")

\* C7: when extraction runs, a scroll count n > 0 has led to exactly n scroll
\* actions, each begun at least 2 s after the one before ended, extraction at
\* least 4 s after the last ended, and 2*(n+1) s of sleep requested after the
\* base delay; any other scroll count has led to no scroll and no such sleep.
ScrollTiming ==
  AtExtraction =>
    /\ (args.scrollCount.k = "num" /\ args.scrollCount.n > 0)
         => numScrolls = args.scrollCount.n
    /\ IF numScrolls > 0
       THEN /\ Len(scrolls) = numScrolls
            /\ waited = 2 * (numScrolls + 1)
            /\ scrolls[1].began >= StartTime + 4
            /\ \A k \in 2..Len(scrolls) : scrolls[k].began >= scrolls[k - 1].ended + 2
            /\ now >= scrolls[Len(scrolls)].ended + 4
       ELSE scrolls = << >> /\ waited = 0

\* C7 witness: three scrolls and 8 s of scroll-related sleep, extraction next
ThreeScrollsEightSeconds ==
  /\ pc = "extract"
  /\ args.scrollCount = JsNum(3)
  /\ Len(scrolls) = 3
  /\ waited = 8

\* C8: once a headless scrape has returned or thrown its hidden window is
\* destroyed, and once a wizard session is settled its window is destroyed.
SurfacesDestroyed ==
  /\ (pc = "done" \/ outcome.state # "pending") => hidden.destroyed
  /\ (settled \/ promise.state # "pending") => wizardWin.destroyed

\* C8 witness: a headless scrape has thrown on a page script after scrolling
ScriptErrorAfterScroll ==
  /\ mode = "headless"
  /\ pc = "done"
  /\ outcome.error = "Script failed to execute"
  /\ Len(scrolls) > 0
  /\ hidden.destroyed

\* the date the script reads from el parses, annotations stripped
Resolvable(el) == ParseDate(Trim(StripAnnotations(ExtractItem(el).date))) # None

RunPairs == {pair \in (1..Len(runs)) \X (1..Len(runs)) : pair[1] < pair[2]}

\* C9 (as claimed): any two runs over the same elements yield identical
\* normalised posts.
RunsIdentical ==
  \A pair \in RunPairs : runs[pair[1]].profileData = runs[pair[2]].profileData

\* C9 (amended): any two runs over the same elements yield posts that agree in
\* every field but the timestamp, and in the timestamp too when the item's date
\* parses; the timestamp of an item whose date is missing or does not parse is
\* the time of the run.
RunsIdenticalButFallback ==
  \A pair \in RunPairs :
    LET one == runs[pair[1]]
        two == runs[pair[2]]
    IN /\ one.profileData.fullName = two.profileData.fullName
       /\ one.profileData.biography = two.profileData.biography
       /\ Len(one.profileData.posts) = Len(elements)
       /\ Len(two.profileData.posts) = Len(elements)
       /\ \A idx \in 1..Len(elements) :
            LET p == one.profileData.posts[idx]
                q == two.profileData.posts[idx]
            IN /\ [p EXCEPT !.timestamp = q.timestamp] = q
               /\ IF Resolvable(elements[idx])
                  THEN p.timestamp = q.timestamp
                  ELSE /\ p.timestamp = toISOString(one.at)
                       /\ q.timestamp = toISOString(two.at)

\* C9 witness: two runs an hour apart over elements of which one has a date
\* that parses and one has not
TwoRunsAnHourApart ==
  /\ Len(runs) = 2
  /\ runs[2].at > runs[1].at
  /\ \E idx \in 1..Len(elements) : Resolvable(elements[idx])
  /\ \E idx \in 1..Len(elements) : ~Resolvable(elements[idx])

\* C10 (as claimed): a post whose item has a date that parses carries that
\* instant and timestampEstimated = false ("2024-01-01T00:00:00Z" gives
\* 2024-01-01T00:00:00.000Z); any other post carries the time of the run and
\* timestampEstimated = true.
EstimatedIffFallback ==
  \A r \in 1..Len(runs) : \A idx \in 1..Len(elements) :
    LET post == runs[r].profileData.posts[idx]
        date == ExtractItem(elements[idx]).date
    IN /\ Resolvable(elements[idx]) =>
            /\ post.timestamp = toISOString(ParseDate(Trim(StripAnnotations(date)))[1])
            /\ ~post.timestampEstimated
       /\ ~Resolvable(elements[idx]) =>
            /\ post.timestamp = toISOString(runs[r].at)
            /\ post.timestampEstimated
       /\ date = NewYear =>
            post.timestamp = [y |-> 2024, mo |-> 1, d |-> 1, h |-> 0, mi |-> 0, s |-> 0,
                              ms |-> 0, zone |-> "Z"]

-----------------------------------------------------------------------------
(* Claims about locator inference *)

Range(seq) == {seq[n] : n \in 1..Len(seq)}

\* C11: every locator the inference hands back matched between 2 and 500
\* elements of the document when it was accepted, and the elements selected
\* are those matches; without such a locator none is recorded.
LocatorInRange ==
  /\ selectedSelector # None =>
       LET count == Cardinality(querySelectorAll(Dom(page), selectedSelector[1]))
       IN /\ count >= MinMatches
          /\ count <= MaxMatches
          /\ Len(selectedEls) = count
  /\ selectedSelector = None => selectedEls = << >>

\* a click on a list of exactly 500 items was accepted
FiveHundredSelected ==
  /\ page = "full"
  /\ selectedSelector # None
  /\ Len(selectedEls) = MaxMatches

\* the same-tag siblings of el, el among them
Group(dom, el) ==
  {n \in 1..Len(dom) : dom[n].parent = dom[el].parent /\ dom[n].tagName = dom[el].tagName}

\* el is one of 2 to 500 same-tag siblings that all hold one stable class
Repeating(dom, el) ==
  /\ Cardinality(Group(dom, el)) >= MinMatches
  /\ Cardinality(Group(dom, el)) <= MaxMatches
  /\ \E n \in 1..Len(dom[el].classList) :
       /\ IsStable(dom[el].classList[n])
       /\ \A sib \in Group(dom, el) : Has(dom[sib].classList, dom[el].classList[n])

\* C12: after a click on a descendant of one of N same-tag siblings that share
\* a stable class (2 <= N <= 500), the elements selected are those N siblings,
\* and a confirmation sends N items.
SiblingsSelected ==
  (mode = "select" /\ target # 0) =>
    \A el \in 1..Len(Dom(page)) :
      (el # target /\ Contains(Dom(page), el, target) /\ Repeating(Dom(page), el)) =>
        /\ selectedSelector # None
        /\ Range(selectedEls) = Group(Dom(page), el)
        /\ \A n \in 1..Len(sent) :
             sent[n].name = "confirm-items" =>
               Len(sent[n].data[1].items[1]) = Cardinality(Group(Dom(page), el))

\* C13: a click from which no locator can be inferred leaves the wizard in the
\* select step with the script still selecting, records no selection, sends
\* nothing to the controller and leaves the session unsettled.
NoLocatorRecovers ==
  [][(\E el \in ClickTargets(page) : Click(el) /\ Inferred(Dom(page), el) = None) =>
       /\ step = "select" /\ step' = "select"
       /\ selectorMode' /\ listening'
       /\ selectedSelector' = None /\ selectedEls' = << >>
       /\ sent' = sent
       /\ promise' = promise /\ settled' = settled
       /\ alert' = NoRepeat]_vars

\* a click found nothing that repeats and the script is still selecting
ClickFoundNothing ==
  /\ mode = "select"
  /\ step = "select"
  /\ target # 0
  /\ selectorMode
  /\ alert = NoRepeat

-----------------------------------------------------------------------------
(* Claims about the wizard's protocol *)

\* C14: a 'cancel' message or the window's 'closed' event, handled while the
\* session is not settled (whichever of login, navigate, navigate-loading,
\* select and scroll the step is), rejects the session; and a rejected session
\* stays rejected.
CancelOrCloseRejects ==
  [][/\ ((Cancel \/ Closed) /\ ~settled) => promise'.state = "rejected"
     /\ promise.state = "rejected" => promise' = promise]_vars

\* the session was cancelled in the scroll step, after a selection was stashed
CancelledInScroll ==
  /\ step = "scroll"
  /\ wizardWin.selectionData # None
  /\ promise = Rejected("Custom feed wizard was cancelled")

-----------------------------------------------------------------------------
(* Claims about failed and empty scrapes *)

LoadErrors == {"Failed to load page", "Timed out loading page"}

\* C15: a headless scrape whose page loaded and whose extraction script threw
\* (the saved selector is not valid) completes with a result: it resolves.
ScriptErrorCaught ==
  (/\ mode = "headless"
   /\ pc = "done"
   /\ ~ValidSelector(args.selector)
   /\ outcome.error \notin LoadErrors) => outcome.state = "resolved"

\* C16: a scheduled scrape that succeeds with no posts writes lastChecked = now
\* and postCount = 0 to its feed and adds no notification; a notification is
\* added only by a step on which a scrape threw.
EmptyScrapeIsSuccess ==
  [][/\ \A s \in schedScrapes, d \in Elapsed :
          SchedSuccess(s, << >>, d) =>
            /\ Len(notificationLog') <= Len(notificationLog)
            /\ LET idx == FindIndex(feeds', s.feed.username, s.platform)
               IN idx # 0 => /\ feeds'[idx].lastChecked = Some(now')
                             /\ feeds'[idx].postCount = 0
     /\ Len(notificationLog') > Len(notificationLog) => ScrapeFails \/ ManualFails]_vars

\* the first event was a timer fire, its scrape found no posts and the feed is
\* recorded as checked now, the timer re-armed
EmptyScrapeRecorded ==
  /\ mode = "sched"
  /\ events = 1
  /\ manualOps = {}
  /\ ~isRefreshing
  /\ notificationLog = << >>
  /\ refreshTimeout # None
  /\ refreshTimeout[1].armedAt = now
  /\ \E idx \in 1..Len(feeds) :
       feeds[idx].postCount = 0 /\ feeds[idx].lastChecked = Some(now)

-----------------------------------------------------------------------------
(* Claims about sessions and messages *)

\* the sessions that have not settled
Outstanding ==
  (IF WizardMode /\ ~settled THEN 1 ELSE 0)
  + Cardinality({k \in 1..Len(others) : ~others[k].settled})

\* C19: at most one wizard session is outstanding at any time.
OneSessionOutstanding == Outstanding <= 1

\* C20: a message on another channel, or with a name that is none of the six
\* events, leaves step, target URL, stashed selection and session outcome as
\* they were.
OtherMessagesIgnored ==
  [][\A msg \in OtherMessages :
       Ignored(msg) =>
         /\ UNCHANGED <<step, targetUrl, promise, settled>>
         /\ wizardWin'.selectionData = wizardWin.selectionData]_vars

\* a message with an unknown name arrived while a selection was stashed and
\* the session goes on
UnknownNameInScroll ==
  /\ ignored = Some(Message(WizardChannel, "close"))
  /\ step = "scroll"
  /\ wizardWin.selectionData # None
  /\ promise.state = "pending"

-----------------------------------------------------------------------------
(* Claims about the registry *)

\* C17: a successful scheduled refresh of the headless server sets the feed's
\* lastChecked to the current time, its postCount to the number of posts
\* returned, and its latestPostDate to the newest timestamp among the posts
\* whose timestampEstimated is false; when there is no such post,
\* latestPostDate keeps its prior value.
RefreshKeepsRealDates ==
  [][\A s \in schedScrapes, posts \in ServerResults, d \in Elapsed :
       ServerSuccess(s, posts, d) =>
         LET idx == FindIndex(feeds, s.feed.username, s.platform)
             real == RealPosts(posts)
         IN idx # 0 =>
              /\ feeds'[idx].lastChecked = Some(now')
              /\ feeds'[idx].postCount = Len(posts)
              /\ feeds'[idx].latestPostDate =
                   IF real # {} THEN Some(MaxTimestamp(posts, real))
                   ELSE feeds[idx].latestPostDate]_vars

\* the same of the desktop scheduler
DesktopRefreshKeepsRealDates ==
  [][\A s \in schedScrapes, posts \in Results, d \in Elapsed :
       SchedSuccess(s, posts, d) =>
         LET idx == FindIndex(feeds, s.feed.username, s.platform)
             real == RealPosts(posts)
         IN idx # 0 =>
              /\ feeds'[idx].lastChecked = Some(now')
              /\ feeds'[idx].postCount = Len(posts)
              /\ feeds'[idx].latestPostDate =
                   IF real # {} THEN Some(MaxTimestamp(posts, real))
                   ELSE feeds[idx].latestPostDate]_vars

\* C18: whatever the interleaving of add-feed, remove-feed, rename-feed and
\* refreshes, no two registrations have the same username and the same
\* platform, a missing platform read as instagram.
OneRegistrationPerSource ==
  \A i, j \in 1..Len(feeds) :
    feeds[i].username = feeds[j].username /\ PlatformOf(feeds[i]) = PlatformOf(feeds[j])
      => i = j

-----------------------------------------------------------------------------
(* Claims about the wizard's transitions *)

\* C21: an event takes effect only in its source step (login-done in login,
\* navigate-to and start-selector in navigate, confirm-items in select,
\* finish-scroll in scroll); handled in any other step it changes neither the
\* step nor the promise.
EventsOnlyInSourceStep ==
  [][/\ LoginDone /\ step # "login" => UNCHANGED <<step, promise>>
     /\ (\E data \in NavigateData : NavigateTo(data)) /\ step # "navigate"
          => UNCHANGED <<step, promise>>
     /\ StartSelector /\ step # "navigate" => UNCHANGED <<step, promise>>
     /\ (\E data \in ConfirmData : ConfirmItems(data)) /\ step # "select"
          => UNCHANGED <<step, promise>>
     /\ (\E data \in ScrollData : FinishScroll(data)) /\ step # "scroll"
          => UNCHANGED <<step, promise>>]_vars

-----------------------------------------------------------------------------
(* Claims about the scheduler's writes *)

\* C22: when a scheduled scrape fails, the error notification names the feed
\* whose scrape was dispatched and no entry other than that feed's is
\* changed, whatever happened to the registry while the scrape was in flight.
FailureNamesDispatchedFeed ==
  [][\A s \in schedScrapes :
       FailsNow(s) =>
         /\ notificationLog'[1].user = s.feed.username
         /\ Len(feeds') = Len(feeds)
         /\ \A i \in 1..Len(feeds) :
              ~(feeds[i].username = s.feed.username /\ PlatformOf(feeds[i]) = s.platform)
                => feeds'[i] = feeds[i]]_vars

\* a 'did-finish-load' is handled
LoadCompletes == \E currentUrl \in PageUrls : DidFinishLoad(currentUrl)

\* C23: after every load completion and every change of step of a session
\* that has not settled, the page carries the controls of the current step
\* (login, navigate, navigate-loading, select or scroll).
ControlsFollowStep ==
  [][(LoadCompletes \/ step' # step) /\ ~settled' /\ ~wizardWin'.destroyed
       => toolbar' = step']_vars

\* C24: when the load started by navigate-to fails, the session is rejected.
LoadFailureRejects ==
  [][DidFailLoad /\ step = "navigate-loading" /\ ~settled
       => promise'.state = "rejected"]_vars

\* C25: the write after a successful scheduled scrape changes no entry other
\* than those of the dispatched feed's (username, platform) and adds or drops
\* none; when the registry no longer has the dispatched feed, it is left as
\* it is.
SuccessWritesOnlyDispatched ==
  [][\A s \in schedScrapes, posts \in ServerResults, d \in Elapsed :
       (mode = "ops" /\ SchedSuccess(s, posts, d)) \/ ServerSuccess(s, posts, d) =>
         /\ Len(feeds') = Len(feeds)
         /\ \A i \in 1..Len(feeds) :
              ~(feeds[i].username = s.feed.username /\ PlatformOf(feeds[i]) = s.platform)
                => feeds'[i] = feeds[i]
         /\ FindIndex(feeds, s.feed.username, s.platform) = 0 => feeds' = feeds]_vars

\* UserC was added after the first tick, later than any add-feed that ends
\* before it, and before the scheduled refresh of the first feed wrote: both
\* entries are stored
AddedDuringScrapeKept ==
  /\ mode = "ops"
  /\ events = 2
  /\ Len(feeds) = 2
  /\ feeds[2].username = UserC
  /\ \A d \in Elapsed : TimeOf(feeds[2]) > StartTime + d
  /\ TimeOf(feeds[2]) < now
  /\ feeds[1].lastChecked = Some(now)
  /\ feeds[1].postCount = 0
  /\ refreshTimeout # None
  /\ refreshTimeout[1].armedAt = now

-----------------------------------------------------------------------------
(* Claims about the delay armed *)

\* the timer a step arms
Armed == refreshTimeout'[1]

\* 6 h minus the age of the oldest feed, when the step's timer is armed
TimeUntilStale == MAX_STALE_MS - (now' - TimeOf(Oldest(feeds')))

\* the longest interval drawn: 65 minutes
MaxInterval == CHOOSE d \in getRandomInterval : \A e \in getRandomInterval : e <= d

\* the delay of the timer a step arms is between 5 seconds and 65 minutes and
\* is the one the three cases give
DelayAsComputed ==
  refreshTimeout' # refreshTimeout =>
    /\ refreshTimeout' # None
    /\ Armed.armedAt = now'
    /\ Armed.due = now' + Armed.delay
    /\ FloorMs <= Armed.delay
    /\ Armed.delay <= MaxInterval
    /\ IF Len(feeds') = 0 THEN Armed.delay \in getRandomInterval
       ELSE \/ TimeUntilStale <= 0 /\ Armed.delay = FloorMs
            \/ \E drawn \in getRandomInterval :
                 /\ 0 < TimeUntilStale
                 /\ TimeUntilStale < drawn
                 /\ Armed.delay = Max(TimeUntilStale - BufferMs, FloorMs)
            \/ \E drawn \in getRandomInterval :
                 TimeUntilStale >= drawn /\ Armed.delay = drawn

-----------------------------------------------------------------------------
(* Claims about the scheduler loop *)

\* the timer of the next tick is pending
TimerPending == refreshTimeout # None /\ refreshTimeout[1] \in timers

\* C27: whenever no scheduled scrape is in flight, isRefreshing is false and
\* the timer of the next tick is pending; every tick that dispatches nothing
\* and every scrape that settles, by success or by failure, arms that timer
\* at that moment.
AlwaysRescheduled ==
  /\ [](schedScrapes = {} => ~isRefreshing /\ TimerPending)
  /\ [][Tick /\ schedScrapes' = schedScrapes
          => refreshTimeout' # None /\ Armed.armedAt = now' /\ Armed \in timers']_vars
  /\ [][schedScrapes # {} /\ schedScrapes' = {}
          => refreshTimeout' # None /\ Armed.armedAt = now' /\ Armed \in timers']_vars

\* a scheduled scrape has just failed: the flag is down and the next tick's
\* timer was armed at this moment
RearmedAfterFailure ==
  /\ mode = "sched"
  /\ notificationLog # << >>
  /\ notificationLog[1].type = "error"
  /\ manualOps = {}
  /\ events = 1
  /\ schedScrapes = {}
  /\ ~isRefreshing
  /\ TimerPending
  /\ refreshTimeout[1].armedAt = now

\* C28: the feed a tick dispatches is an entry of the registry whose
\* lastChecked is the oldest at that moment, an entry without lastChecked
\* being older than every entry that has one; only a tick dispatches, and
\* with an empty registry it dispatches nothing.
OldestIsDispatched ==
  [][/\ \A s \in schedScrapes' \ schedScrapes :
          /\ Tick
          /\ s.at = now'
          /\ \E i \in 1..Len(feeds) : feeds[i] = s.feed
          /\ \A i \in 1..Len(feeds) :
               /\ TimeOf(s.feed) <= TimeOf(feeds[i])
               /\ feeds[i].lastChecked = None => s.feed.lastChecked = None
     /\ Tick /\ Len(feeds) = 0 => schedScrapes' = schedScrapes
     /\ Tick /\ Len(feeds) > 0 /\ ~isRefreshing => schedScrapes' # schedScrapes]_vars

\* the first tick dispatched the second entry of the registry, checked
\* longer ago than the first
SecondEntryDispatched ==
  /\ events = 1
  /\ Len(feeds) = 2
  /\ TimeOf(feeds[2]) < TimeOf(feeds[1])
  /\ \E s \in schedScrapes : s.feed = feeds[2]

\* C29: no write moves a feed's lastChecked backwards: across every step, a
\* feed that stays registered has a lastChecked at least as late as before.
LastCheckedNeverDecreases ==
  [][\A i \in 1..Len(feeds), j \in 1..Len(feeds') :
       SameFeed(feeds[i], feeds'[j]) => TimeOf(feeds'[j]) >= TimeOf(feeds[i])]_vars

-----------------------------------------------------------------------------
(* Claims about the order of the inference strategies *)

\* the walk that stops at the first ancestor where a strategy succeeds and
\* takes the first of attribute match, class match (scoped by the parent when
\* it matches too much) and parent > tag that succeeds there
RECURSIVE FirstSuccess(_, _, _)
FirstSuccess(dom, current, depth) ==
  IF current = 0 \/ current = body \/ current = documentElement \/ depth >= maxDepth
  THEN None
  ELSE
    LET parent == dom[current].parent
        tagName == dom[current].tagName
        tag == toLowerCase(tagName)
        siblings == {n \in 1..Len(dom) : dom[n].parent = parent /\ dom[n].tagName = tagName}
        attrSel(ai) ==
          Selector(NoSimple, Simple(tag, "", dataAttrs[ai], dom[current].attrs[dataAttrs[ai]], << >>))
        byAttr ==
          {ai \in 1..Len(dataAttrs) :
             LET attrVal == dom[current].attrs[dataAttrs[ai]]
             IN /\ attrVal # ""
                /\ Cardinality({sib \in siblings : dom[sib].attrs[dataAttrs[ai]] = attrVal}) >= 2
                /\ InRange(Cardinality(querySelectorAll(dom, attrSel(ai))))}
        Shared(cls) ==
          /\ IsStable(cls)
          /\ LET count == Cardinality({sib \in siblings : Has(dom[sib].classList, cls)})
             IN count >= 2 /\ 2 * count >= Cardinality(siblings)
        sharedClasses == SelectSeq(dom[current].classList, Shared)
        classSel == Selector(NoSimple, Simple(tag, "", "", "", sharedClasses))
        matches == Cardinality(querySelectorAll(dom, classSel))
        parentSel == getSimpleSelector(dom, parent)
        scopedSel == Selector(parentSel[1], classSel.item)
        childSel == Selector(parentSel[1], Simple(tag, "", "", "", << >>))
    IN IF parent = 0 THEN None
       ELSE IF Cardinality(siblings) < 2 THEN FirstSuccess(dom, parent, depth + 1)
       ELSE IF byAttr # {} THEN Some(attrSel(First(byAttr)))
       ELSE IF sharedClasses # << >> /\ InRange(matches) THEN Some(classSel)
       ELSE IF /\ sharedClasses # << >>
               /\ matches > MaxMatches
               /\ parentSel # None
               /\ InRange(Cardinality(querySelectorAll(dom, scopedSel)))
         THEN Some(scopedSel)
       ELSE IF parentSel # None /\ InRange(Cardinality(querySelectorAll(dom, childSel)))
         THEN Some(childSel)
       ELSE FirstSuccess(dom, parent, depth + 1)

\* that walk from the target, else from its parent, else from the parent's
\* parent, as onClick retries
FirstSuccessFrom(dom, el) ==
  LET parent == dom[el].parent
      first == FirstSuccess(dom, el, 0)
      second == IF first = None /\ parent # 0 THEN FirstSuccess(dom, parent, 0) ELSE first
  IN IF second = None /\ parent # 0 /\ dom[parent].parent # 0
     THEN FirstSuccess(dom, dom[parent].parent, 0)
     ELSE second

FirstSuccessAt ==
  [name \in PageNames |-> [el \in ClickTargets(name) |-> FirstSuccessFrom(Dom(name), el)]]

\* C30: the locator a click records is the one of the highest-priority
\* strategy that succeeds at the shallowest ancestor where any succeeds.
ShallowestFirstWins ==
  selectedSelector # None /\ target # 0 => selectedSelector = FirstSuccessAt[page][target]

-----------------------------------------------------------------------------
(* Claims about the extracted link *)

\* the anchors inside el whose destination is real
RealAnchors(dom, el) ==
  {d \in Descendants(dom, el) :
     /\ dom[d].tagName = "A"
     /\ dom[d].href # None
     /\ dom[d].href[1] # EmptyUrl
     /\ dom[d].href[1].scheme # "javascript"}

\* the destination of the first of them in document order, EmptyUrl when none
FirstRealLink(dom, el) ==
  IF RealAnchors(dom, el) = {} THEN EmptyUrl ELSE dom[First(RealAnchors(dom, el))].href[1]

FirstRealLinkAt ==
  [name \in PageNames |-> [el \in 1..Len(Dom(name)) |-> FirstRealLink(Dom(name), el)]]

\* C31: every item the page sends with 'confirm-items' carries as its link the
\* destination of the first descendant anchor of its element that is not a
\* javascript: URL, and an empty link only when the element holds no such anchor.
LinkIsFirstRealAnchor ==
  \A m \in 1..Len(sent) :
    sent[m].name = "confirm-items" /\ sent[m].data # None /\ sent[m].data[1].items # None =>
      LET items == sent[m].data[1].items[1]
      IN /\ Len(items) = Len(selectedEls)
         /\ \A n \in 1..Len(items) : items[n].link = FirstRealLinkAt[page][selectedEls[n]]

-----------------------------------------------------------------------------
(* Claims about scrapes in flight *)

\* the scrapes in flight: the scheduler's, those of refresh requests and those
\* of add requests
ScrapesInFlight == Cardinality(schedScrapes) + Cardinality(manualOps) + Cardinality(addOps)

\* C32: at most one scrape is in flight at any time, whether the scheduler or
\* a refresh or add request started it.
OneScrapeSystemWide == ScrapesInFlight <= 1

-----------------------------------------------------------------------------
(* Claims about the two schedulers *)

\* C33: a successful refresh of the headless scheduler stores what the desktop
\* scheduler stores for the same registry, feed, posts and time: the same
\* lastChecked, postCount and latestPostDate.
HeadlessWritesAsDesktop ==
  [][\A s \in schedScrapes, posts \in ServerResults, d \in Elapsed :
       ServerSuccess(s, posts, d) =>
         feeds' = SuccessWrite(feeds, s.feed.username, s.platform, posts, now')]_vars

-----------------------------------------------------------------------------
(* Claims about the refresh timer *)

\* C34: at most one refresh timer is pending, the one refreshTimeout names;
\* arming a timer leaves it the only one pending; and no refresh timer is
\* pending while a scheduled scrape is in flight.
SingleLogicalTimer ==
  /\ [](Cardinality(timers) <= 1)
  /\ [](timers # {} => TimerPending)
  /\ [](schedScrapes # {} => timers = {})
  /\ [][refreshTimeout' # refreshTimeout => timers' = {Armed}]_vars

\* a second tick found the registry empty: it armed a timer in the try block
\* and another in the finally block, and only the last one is pending
ArmedTwiceOnEmptyRegistry ==
  /\ mode = "sched"
  /\ Len(feeds) = 0
  /\ schedScrapes = {}
  /\ ~isRefreshing
  /\ events >= 2
  /\ timers = {refreshTimeout[1]}
  /\ refreshTimeout[1].armedAt = now
  /\ now > StartTime

-----------------------------------------------------------------------------
(* Claims about resolving notifications *)

\* C35: a successful scheduled refresh of a feed resolves exactly the
\* unresolved notifications that name that feed: none naming it stays
\* unresolved and none naming another feed becomes resolved.
ResolvesExactlyOwn ==
  [][\A s \in schedScrapes, posts \in Results, d \in Elapsed :
       SchedSuccess(s, posts, d) =>
         /\ Len(notificationLog') = Len(notificationLog)
         /\ \A i \in 1..Len(notificationLog) :
              notificationLog'[i].resolved =
                (notificationLog[i].resolved \/ notificationLog[i].user = s.feed.username)]_vars

-----------------------------------------------------------------------------
(* Claims about lastChecked and the clock *)

\* C36: no feed's lastChecked is later than the current time.
LastCheckedNotInFuture ==
  \A i \in 1..Len(feeds) : TimeOf(feeds[i]) <= now

-----------------------------------------------------------------------------
(* Claims about the page a wizard result names *)

\* C37: the pageUrl of a resolved wizard result is the URL of the page the
\* window showed when the items were confirmed, the page on which the locator
\* was inferred.
PageUrlIsConfirmedPage ==
  /\ promise.state = "resolved"
  /\ confirmedOn # None
  /\ confirmedOn[1] # EmptyUrl
  => promise.value[1].pageUrl = confirmedOn[1]

-----------------------------------------------------------------------------
(* Claims about adding a feed while the registry changes *)

\* C38: the write of an add request keeps the registry as it is at that
\* moment and appends the new entry: whatever was committed while the
\* request's scrape was in flight is still there afterwards.
AddKeepsCommittedChanges ==
  [][\A a \in addOps :
       a \notin addOps' /\ feeds' # feeds =>
         /\ Len(feeds') = Len(feeds) + 1
         /\ SubSeq(feeds', 1, Len(feeds)) = feeds]_vars

-----------------------------------------------------------------------------
(* Claims about the tunnel *)

\* the tunnel processes that run and were not told to end
Running == {pid \in 1..Len(procs) : procs[pid].state = "alive" /\ ~procs[pid].signalled}

\* C39: from the return of stopTunnel until startTunnel is called again no
\* tunnel process runs, and no more than one tunnel process runs at any time.
StoppedTunnelStaysStopped ==
  /\ stopped => Running = {}
  /\ Cardinality(Running) <= 1

\* the second half by itself
SingleTunnelProcess == Cardinality(Running) <= 1

====
